---------------------------- MODULE Spec2Model ----------------------------
(***************************************************************************)
(* A model of the onboarding bot (src/bot/app.py) and of the reconciliation *)
(* puller (src/puller/app.py, src/puller/app copy.py).                      *)
(*                                                                         *)
(* Texts are sequences of Unicode code points, so that the validators are  *)
(* computed character by character as the regular expressions compute      *)
(* them.  A MongoDB collection is a sequence of documents; a document is a *)
(* record over a fixed field set in which an absent field is None (<<>>)   *)
(* and a present one is Some(v) (<<v>>).  Uniqueness of a key is therefore *)
(* a property of the operations, not of the representation.                *)
(*                                                                         *)
(* Twelve specifications share the definitions:                             *)
(*   SpecText   the conversation engine of one chat on concrete texts;     *)
(*   SpecSession the conversation of one chat and the sweep's promotion;   *)
(*   SpecInput  one input around the limits of each validator;             *)
(*   SpecSweep  one sweep over two waiting Sessions, every call failing;   *)
(*   SpecPoll   the inbound polling loop, the persisted OFFSET, restarts;  *)
(*   SpecRetry  the polling loop with get_updates failing, under fairness; *)
(*   SpecFetch  the two paginated fetch variants on provider pages, and    *)
(*              SpecFetchLive, the same under fairness of the loop;        *)
(*   SpecIngest batch_upsert_users on batches of provider records;         *)
(*   SpecLive   the reconciliation loop alone, no call failing, fair;      *)
(*   SpecRace   the sweeps against the whole conversation of one chat;     *)
(*   Spec       the inbound handling and the reconciliation loop           *)
(*              interleaved on the shared store.                           *)
(*                                                                         *)
(* Store and network calls may fail wherever the source catches the        *)
(* exception.  A functional property is stated for the handlings whose     *)
(* calls succeed; what a failure leaves behind is stated separately.       *)
(***************************************************************************)
EXTENDS Integers, Sequences, FiniteSets, TLC

VARIABLES
    users,          \* collection db.users (Session documents)
    invite_users,   \* collection db.invite_users (ExternalAccount documents)
    setting,        \* db.setting, key "OFFSET": None or Some(value)
    tg_updates,     \* the platform's update queue; update_id = position
    tg_confirmed,   \* the platform's confirmation low-water mark
    bot_pc,         \* position of the inbound loop
    OFFSET,         \* local of get_updates_and_process
    updates,        \* local of get_updates_and_process: the fetched batch
    upd_i,          \* index of the update being handled in the batch
    current,        \* the update in flight between get_user_state and routing
    last,           \* history: the last handling (message, state read, reply)
    handled,        \* history: update_id -> number of handle_update calls
    disruptions,    \* history: restarts and failed OFFSET reads/writes
    scen,           \* history: progress of the end-to-end scenarios
    entered,        \* SpecRace: chat_id -> entries into WAITING_PAYMENT
    pul_pc,         \* position of the reconciliation loop
    new_users,      \* local of main: the fetched records
    waiting_users,  \* local of process_waiting_payment_users
    wait_i,         \* index of the waiting user being processed
    balance_volume, \* local of process_waiting_payment_users
    sent,           \* history: chat_id -> completion notifications delivered
    cycle,          \* history: reconciliation cycles started
    sweep,          \* history: the last per-session decision of the sweep
    ingested,       \* history: the last batch batch_upsert_users saved
    pages,          \* SpecFetch: the provider's pages
    known,          \* SpecFetch: the uids already in invite_users
    fetch           \* SpecFetch: locals and result of the paginated fetch

storeVars  == <<users, invite_users, setting>>
tgVars     == <<tg_updates, tg_confirmed>>
pollVars   == <<bot_pc, OFFSET, updates, upd_i, handled, disruptions>>
botVars    == <<current, last, scen, entered>>
pullerVars == <<pul_pc, new_users, waiting_users, wait_i, balance_volume,
                sent, cycle, sweep, ingested>>
fetchVars  == <<pages, known, fetch>>
vars == <<storeVars, tgVars, pollVars, botVars, pullerVars, fetchVars>>

-----------------------------------------------------------------------------
(* Optional values and documents *)

None == <<>>
Some(v) == <<v>>
IsSome(o) == o # <<>>
Get(o) == o[1]

\* dict.get(key, default) on an optional field
GetOr(o, default) == IF o = None THEN default ELSE o[1]

\* {"$set": s} applied to document d: the fields of s overwrite, the rest stay
SetFields(d, s) ==
    [f \in DOMAIN d |-> IF f \in DOMAIN s THEN s[f] ELSE d[f]]

\* index of the first document whose field key equals Some(val); 0 when none
FirstMatch(coll, key, val) ==
    IF \E i \in 1..Len(coll) : coll[i][key] = Some(val)
    THEN CHOOSE i \in 1..Len(coll) :
            /\ coll[i][key] = Some(val)
            /\ \A j \in 1..(i - 1) : coll[j][key] # Some(val)
    ELSE 0

\* collection.find_one({key: val}): None or Some(document)
find_one(coll, key, val) ==
    IF FirstMatch(coll, key, val) = 0 THEN None
    ELSE Some(coll[FirstMatch(coll, key, val)])

\* an upsert that never looks for the matching document
update_one_inserting(coll, blank, key, val, s, upsert) ==
    IF upsert THEN Append(coll, SetFields([blank EXCEPT ![key] = Some(val)], s))
    ELSE coll

\* collection.update_one({key: val}, {"$set": s}, upsert): the first matching
\* document is updated; with upsert and no match a document made of the
\* filter and of s is inserted
update_one(coll, blank, key, val, s, upsert) ==
    LET i == FirstMatch(coll, key, val) IN
    IF i # 0 THEN [coll EXCEPT ![i] = SetFields(coll[i], s)]
    ELSE IF upsert
         THEN Append(coll, SetFields([blank EXCEPT ![key] = Some(val)], s))
         ELSE coll

\* matched_count of the same update
matched_count(coll, key, val) == IF FirstMatch(coll, key, val) = 0 THEN 0 ELSE 1

-----------------------------------------------------------------------------
(* Characters and texts *)

\* str.isspace(), which str.strip() and the pattern \s use
WhiteSpace ==
    {9, 10, 11, 12, 13, 28, 29, 30, 31, 32, 133, 160, 5760, 8232, 8233, 8239,
     8287, 12288} \cup (8192..8202)
IsSpace(c) == c \in WhiteSpace

\* the pattern \d on str: the decimal digits of the scripts the inputs use
\* (ASCII, Arabic-Indic U+0660.., Extended Arabic-Indic U+06F0..)
IsDigit(c) == c \in (48..57) \cup (1632..1641) \cup (1776..1785)

\* [a-zA-Z]
IsAsciiLetter(c) == c \in (65..90) \cup (97..122)

\* [0-9]
IsAsciiDigit(c) == c \in 48..57

RECURSIVE lstrip(_)
lstrip(s) == IF s # <<>> /\ IsSpace(Head(s)) THEN lstrip(Tail(s)) ELSE s

RECURSIVE rstrip(_)
rstrip(s) ==
    IF s # <<>> /\ IsSpace(s[Len(s)]) THEN rstrip(SubSeq(s, 1, Len(s) - 1))
    ELSE s

\* str.strip()
strip(s) == rstrip(lstrip(s))

\* str.startswith(p)
startswith(s, p) == Len(s) >= Len(p) /\ SubSeq(s, 1, Len(p)) = p

-----------------------------------------------------------------------------
(* States, src/bot/app.py:33-42 *)

START == "START"
NAME == "NAME"
PHONE == "PHONE"
CAPITAL == "CAPITAL"
UID == "UID"
WAITING_PAYMENT == "WAITING_PAYMENT"
COMPLETED == "COMPLETED"
CANCELLED == "CANCELLED"

States ==
    {START, NAME, PHONE, CAPITAL, UID, WAITING_PAYMENT, COMPLETED, CANCELLED}

\* the value of field "state" in a document that has no such field
NoState == "(absent)"

-----------------------------------------------------------------------------
(* fa_to_eng_number and InputValidator *)

PersianZero == 1776
AsciiZero == 48

\* str.translate of the table '۰۱۲۳۴۵۶۷۸۹' -> '0123456789'
fa_to_eng_number(text) ==
    [i \in 1..Len(text) |->
        IF text[i] \in PersianZero..(PersianZero + 9)
        THEN text[i] - PersianZero + AsciiZero
        ELSE text[i]]

\* the result of a validator: the cleaned value, or the reason of the
\* ValidationError it raises
Valid(v) == [ok |-> TRUE, value |-> v, reason |-> ""]
Invalid(r) == [ok |-> FALSE, value |-> <<>>, reason |-> r]

NameMinLen == 2
NameMaxLen == 30

\* the character class [آ-یa-zA-Z\s]: U+0622..U+06CC, ASCII letters, \s
InNameClass(c) == c \in 1570..1740 \/ IsAsciiLetter(c) \/ IsSpace(c)

\* re.match(r"^[آ-یa-zA-Z\s]{2,30}$", s): k class characters from the start,
\* then the end of s or the newline that ends s
MatchName(s) ==
    \E k \in NameMinLen..NameMaxLen :
        /\ k <= Len(s)
        /\ \A i \in 1..k : InNameClass(s[i])
        /\ \/ k = Len(s)
           \/ k = Len(s) - 1 /\ s[Len(s)] = 10

validate_name(name) ==
    IF name = <<>> \/ strip(name) = <<>> THEN Invalid("name_empty")
    ELSE IF ~MatchName(strip(name)) THEN Invalid("name_shape")
    ELSE Valid(strip(name))

PhoneMinDigits == 10
PhoneMaxDigits == 15
PlusSign == 43

\* the characters re.sub(r'[^\d+]', '', ...) keeps
KeepPhoneChar(c) == IsDigit(c) \/ c = PlusSign

\* re.match(r'^\+?\d{10,15}', s): no anchor at the end
MatchPhone(s) ==
    \E p \in {0, 1} : \E k \in PhoneMinDigits..PhoneMaxDigits :
        /\ p = 1 => (Len(s) >= 1 /\ s[1] = PlusSign)
        /\ p + k <= Len(s)
        /\ \A i \in (p + 1)..(p + k) : IsDigit(s[i])

validate_phone(phone) ==
    IF phone = <<>> \/ strip(phone) = <<>> THEN Invalid("phone_empty")
    ELSE IF ~MatchPhone(SelectSeq(strip(phone), KeepPhoneChar))
         THEN Invalid("phone_shape")
    ELSE Valid(SelectSeq(strip(phone), KeepPhoneChar))

UidMinLen == 6
UidMaxLen == 20

\* re.match(r'^[a-zA-Z0-9]{6,20}', s): no anchor at the end
MatchUid(s) ==
    \E k \in UidMinLen..UidMaxLen :
        /\ k <= Len(s)
        /\ \A i \in 1..k : IsAsciiLetter(s[i]) \/ IsAsciiDigit(s[i])

\* validate_uid accepting ASCII digits only, as its error text words the rule
validate_uid_digits(uid) ==
    IF uid = <<>> \/ strip(uid) = <<>> THEN Invalid("uid_empty")
    ELSE IF ~(\E k \in UidMinLen..UidMaxLen :
                 /\ k <= Len(strip(uid))
                 /\ \A i \in 1..k : IsAsciiDigit(strip(uid)[i]))
         THEN Invalid("uid_shape")
    ELSE Valid(strip(uid))

validate_uid(uid) ==
    IF uid = <<>> \/ strip(uid) = <<>> THEN Invalid("uid_empty")
    ELSE IF ~MatchUid(strip(uid)) THEN Invalid("uid_shape")
    ELSE Valid(strip(uid))

-----------------------------------------------------------------------------
(* Texts of the source *)

SlashChar == <<47>>
CmdStart == <<47, 115, 116, 97, 114, 116>>
CmdCancel == <<47, 99, 97, 110, 99, 101, 108>>

\* the five labels of valid_options, each starting with a Persian digit
valid_options ==
    { <<1777, 45, 32, 1586, 1740, 1585, 32, 1777, 1776, 32, 1605, 1740, 1604,
        1740, 1608, 1606>>,
      <<1778, 45, 32, 1777, 1776, 32, 1578, 1575, 32, 1779, 1776, 32, 1605,
        1740, 1604, 1740, 1608, 1606>>,
      <<1779, 45, 32, 1779, 1776, 32, 1578, 1575, 32, 1777, 1776, 1776, 32,
        1605, 1740, 1604, 1740, 1608, 1606>>,
      <<1780, 45, 32, 1777, 1776, 1776, 32, 1578, 1575, 32, 1781, 1776, 1776,
        32, 1605, 1740, 1604, 1740, 1608, 1606>>,
      <<1781, 45, 32, 1576, 1575, 1604, 1575, 1740, 32, 1781, 1776, 1776, 32,
        1605, 1740, 1604, 1740, 1608, 1606>> }

\* the buttons of the keyboard sent with a reply: the five labels when the
\* band is asked for, in PHONE and again in CAPITAL
reply_markup(kind) ==
    IF kind \in {"ask_capital", "choose_capital"} THEN valid_options ELSE {}

-----------------------------------------------------------------------------
(* DatabaseManager: the Session documents.  updated_at and created_at are   *)
(* left out: no operation reads them.                                       *)

BlankUser ==
    [chat_id |-> None, state |-> NoState, name |-> None, phone |-> None,
     capital |-> None, uid |-> None, balanceVolume |-> None,
     payment_confirmed_at |-> None]

\* the state a Session document carries: user.get("state", States.START)
StateOf(doc) == IF doc.state = NoState THEN START ELSE doc.state

\* get_user_state: START when there is no document or the read fails
get_user_state(us, chat_id, read_ok) ==
    IF ~read_ok THEN START
    ELSE IF find_one(us, "chat_id", chat_id) = None THEN START
    ELSE StateOf(Get(find_one(us, "chat_id", chat_id)))

\* update_user_data written with insert_one: a new document every time
update_user_data_inserting(us, chat_id, state, data) ==
    Append(us, SetFields(BlankUser, data @@ [chat_id |-> Some(chat_id),
                                             state |-> state]))

\* update_user_data: $set of chat_id, state and the fields of data, upsert
update_user_data(us, chat_id, state, data) ==
    update_one(us, BlankUser, "chat_id", chat_id,
               data @@ [chat_id |-> Some(chat_id), state |-> state], TRUE)

\* get_user_data: None when there is no document or the read fails
get_user_data(us, chat_id, read_ok) ==
    IF read_ok THEN find_one(us, "chat_id", chat_id) ELSE None

NoData == [f \in {} |-> None]

-----------------------------------------------------------------------------
(* TelegramBot: the handlers.  An update is [chat, text, contact]; text is  *)
(* <<>> when the message carries no text, contact is None or Some(phone).   *)
(* A handler yields the collection it leaves and the message it sends.      *)
(* io is "ok", "write_fails" (update_user_data raises) or "read_fails"      *)
(* (get_user_data returns None).                                            *)

Reply(kind, reason) == [kind |-> kind, reason |-> reason]
Out(us, kind, reason) == [users |-> us, reply |-> Reply(kind, reason)]

\* what handle_update's except branch leaves: nothing written, the error text
Raised(us) == Out(us, "error", "")

handle_start_command(us, update, io) ==
    IF io = "write_fails" THEN Raised(us)
    ELSE Out(update_user_data(us, update.chat, NAME, NoData), "welcome", "")

\* a cancel handler that answers without writing the state
handle_cancel_command_replying(us, update, io) ==
    IF io = "write_fails" THEN Raised(us)
    ELSE Out(us, "cancelled", "")

handle_cancel_command(us, update, io) ==
    IF io = "write_fails" THEN Raised(us)
    ELSE Out(update_user_data(us, update.chat, CANCELLED, NoData),
             "cancelled", "")

handle_command(us, update, io) ==
    IF update.text = CmdStart THEN handle_start_command(us, update, io)
    ELSE IF update.text = CmdCancel THEN handle_cancel_command(us, update, io)
    ELSE Out(us, "unknown_command", "")

\* a START handler that stores the Session it answers for
handle_start_state_creating(us, update, io) ==
    IF io = "write_fails" THEN Raised(us)
    ELSE Out(update_user_data(us, update.chat, START, NoData),
             "send_start", "")

handle_start_state(us, update, io) == Out(us, "send_start", "")

handle_name_input(us, update, io) ==
    LET v == validate_name(update.text) IN
    IF ~v.ok THEN Out(us, "invalid_name", v.reason)
    ELSE IF io = "write_fails" THEN Raised(us)
    ELSE Out(update_user_data(us, update.chat, PHONE,
                              [name |-> Some(v.value)]), "ask_phone", "")

\* a phone handler that keeps a rejected phone in the document
handle_phone_input_storing(us, update, io) ==
    LET phone == IF update.contact # None THEN Get(update.contact)
                 ELSE update.text
        v == validate_phone(phone) IN
    IF ~v.ok
    THEN Out(update_user_data(us, update.chat, PHONE,
                              [phone |-> Some(phone)]),
             "invalid_phone", v.reason)
    ELSE IF io = "write_fails" THEN Raised(us)
    ELSE Out(update_user_data(us, update.chat, CAPITAL,
                              [phone |-> Some(v.value)]), "ask_capital", "")

handle_phone_input(us, update, io) ==
    LET phone == IF update.contact # None THEN Get(update.contact)
                 ELSE update.text
        v == validate_phone(phone) IN
    IF ~v.ok THEN Out(us, "invalid_phone", v.reason)
    ELSE IF io = "write_fails" THEN Raised(us)
    ELSE Out(update_user_data(us, update.chat, CAPITAL,
                              [phone |-> Some(v.value)]), "ask_capital", "")

\* a capital handler that trims the text before it looks it up
handle_capital_input_trimming(us, update, io) ==
    IF strip(update.text) \in valid_options
    THEN IF io = "write_fails" THEN Raised(us)
         ELSE Out(update_user_data(us, update.chat, UID,
                                   [capital |-> Some(strip(update.text))]),
                  "ask_uid", "")
    ELSE Out(us, "choose_capital", "not_an_option")

handle_capital_input(us, update, io) ==
    IF update.text \in valid_options
    THEN IF io = "write_fails" THEN Raised(us)
         ELSE Out(update_user_data(us, update.chat, UID,
                                   [capital |-> Some(update.text)]),
                  "ask_uid", "")
    ELSE Out(us, "choose_capital", "not_an_option")

handle_uid_input(us, update, io) ==
    LET v == validate_uid(fa_to_eng_number(strip(update.text))) IN
    IF ~v.ok THEN Out(us, "invalid_uid", v.reason)
    ELSE IF io = "write_fails" THEN Raised(us)
    ELSE LET written == update_user_data(us, update.chat, WAITING_PAYMENT,
                                         [uid |-> Some(v.value)]) IN
         IF get_user_data(written, update.chat, io # "read_fails") = None
         THEN Out(written, "error", "")
         ELSE Out(written, "summary", "")

\* a handler of the waiting state that sends the Session back to START
handle_waiting_payment_resetting(us, update, io) ==
    IF io = "write_fails" THEN Raised(us)
    ELSE Out(update_user_data(us, update.chat, START, NoData),
             "still_waiting", "")

handle_waiting_payment(us, update, io) == Out(us, "still_waiting", "")

handle_completed_state(us, update, io) == Out(us, "already_completed", "")

handle_cancelled_state(us, update, io) == Out(us, "was_cancelled", "")

\* a handler of unknown states that empties the collected fields
handle_unknown_state_clearing(us, update, io) ==
    IF io = "write_fails" THEN Raised(us)
    ELSE Out(update_user_data(us, update.chat, START,
                              [name |-> None, phone |-> None,
                               capital |-> None, uid |-> None]),
             "state_error", "")

handle_unknown_state(us, update, io) ==
    IF io = "write_fails" THEN Raised(us)
    ELSE Out(update_user_data(us, update.chat, START, NoData),
             "state_error", "")

\* the routing without the entries of the terminal states
route_without_terminal(us, update, current_state, io) ==
    IF startswith(update.text, SlashChar) THEN handle_command(us, update, io)
    ELSE IF current_state = START THEN handle_start_state(us, update, io)
    ELSE IF current_state = NAME THEN handle_name_input(us, update, io)
    ELSE IF current_state = PHONE THEN handle_phone_input(us, update, io)
    ELSE IF current_state = CAPITAL THEN handle_capital_input(us, update, io)
    ELSE IF current_state = UID THEN handle_uid_input(us, update, io)
    ELSE IF current_state = WAITING_PAYMENT
         THEN handle_waiting_payment(us, update, io)
    ELSE handle_unknown_state(us, update, io)

\* handle_update after get_user_state returned current_state: commands
\* first, then the handler of the state
route(us, update, current_state, io) ==
    IF startswith(update.text, SlashChar) THEN handle_command(us, update, io)
    ELSE IF current_state = START THEN handle_start_state(us, update, io)
    ELSE IF current_state = NAME THEN handle_name_input(us, update, io)
    ELSE IF current_state = PHONE THEN handle_phone_input(us, update, io)
    ELSE IF current_state = CAPITAL THEN handle_capital_input(us, update, io)
    ELSE IF current_state = UID THEN handle_uid_input(us, update, io)
    ELSE IF current_state = WAITING_PAYMENT
         THEN handle_waiting_payment(us, update, io)
    ELSE IF current_state = COMPLETED
         THEN handle_completed_state(us, update, io)
    ELSE IF current_state = CANCELLED
         THEN handle_cancelled_state(us, update, io)
    ELSE handle_unknown_state(us, update, io)

\* handle_update routing a Session in PHONE by its state before it looks for
\* a command
handle_update_state_first(us, update, read_ok, io) ==
    IF get_user_state(us, update.chat, read_ok) = PHONE
    THEN handle_phone_input(us, update, io)
    ELSE route(us, update, get_user_state(us, update.chat, read_ok), io)

\* handle_update as one call: the state is read, then the update is routed
handle_update(us, update, read_ok, io) ==
    route(us, update, get_user_state(us, update.chat, read_ok), io)

\* the outcomes of the store calls of one handling: <<read_ok, io>>.  One
\* failure at a time: a handling that reads the state as START on a failed
\* read makes no further call unless it is a command, which ignores the state
IoOutcomes ==
    {<<TRUE, "ok">>, <<FALSE, "ok">>, <<TRUE, "write_fails">>,
     <<TRUE, "read_fails">>}
Nominal(f) == f = <<TRUE, "ok">>

-----------------------------------------------------------------------------
(* Inbound messages *)

Msg(c, text) == [chat |-> c, text |-> text, contact |-> None]
ContactMsg(c, phone) == [chat |-> c, text |-> <<>>, contact |-> Some(phone)]
Repeat(c, n) == [i \in 1..n |-> c]
Nines(n) == Repeat(57, n)

T_Help == <<47, 104, 101, 108, 112>>
T_SlashPhone == <<47>> \o Nines(PhoneMinDigits)
T_Ali == <<65, 108, 105>>
T_AliPadded == <<32, 65, 108, 105, 32>>
T_A == <<65>>
T_Al1 == <<65, 108, 49>>
T_AB == <<97, 32, 98>>
T_Farsi == <<1593, 1604, 1740>>
T_ArabicDigits == <<1635, 1635>>
T_Phone == <<43, 57, 56, 57, 49, 50, 49, 50, 51, 52, 53, 54, 55>>
T_ShortPhone == <<49, 50, 51, 52, 53>>
T_Label2 ==
    <<1778, 45, 32, 1777, 1776, 32, 1578, 1575, 32, 1779, 1776, 32, 1605,
      1740, 1604, 1740, 1608, 1606>>
T_Label2Ascii ==
    <<50, 45, 32, 1777, 1776, 32, 1578, 1575, 32, 1779, 1776, 32, 1605, 1740,
      1604, 1740, 1608, 1606>>
T_Uid == <<65, 66, 49, 50, 51, 52, 53>>
T_UidFarsi == <<1777, 1778, 1779, 1780, 1781, 1782>>
T_UidShort == <<97, 98, 99>>

\* the names offered in state NAME: around both length limits, padded,
\* Persian, with ASCII digits, with Arabic-Indic digits, without text
NameTexts ==
    {T_Ali, T_AliPadded, T_A, T_Al1, T_AB, T_Farsi, T_ArabicDigits, <<>>,
     Repeat(97, NameMaxLen), Repeat(97, NameMaxLen + 1)}

TextTexts ==
    {CmdStart, CmdCancel, T_Help} \cup NameTexts
    \cup {T_ShortPhone, T_Label2, T_Label2Ascii, T_Uid, T_UidFarsi, T_UidShort}

TextInputs == {Msg(42, t) : t \in TextTexts} \cup {ContactMsg(42, T_Phone)}

-----------------------------------------------------------------------------
(* Values of the variables a specification does not use *)

StoreIdle == users = <<>> /\ invite_users = <<>> /\ setting = None
TgIdle == tg_updates = <<>> /\ tg_confirmed = 0
PollIdle ==
    /\ bot_pc = "off" /\ OFFSET = 0 /\ updates = <<>> /\ upd_i = 0
    /\ handled = <<>> /\ disruptions = 0
BotIdle == current = None /\ last = None /\ scen = None /\ entered = <<>>
PullerIdle ==
    /\ pul_pc = "off" /\ new_users = <<>> /\ waiting_users = <<>>
    /\ wait_i = 0 /\ balance_volume = 0 /\ sent = <<>> /\ cycle = 0
    /\ sweep = None /\ ingested = None

FetchIdle == pages = <<>> /\ known = {} /\ fetch = None

-----------------------------------------------------------------------------
(* SpecText: one chat, every text in every state, handle_update as one step *)

\* the two end-to-end scripts: as the scenario is written (second capital
\* label typed with an ASCII 2) and with the label of valid_options
Script(label) ==
    <<Msg(42, CmdStart), Msg(42, T_Ali), ContactMsg(42, T_Phone),
      Msg(42, label), Msg(42, T_Uid)>>

\* progress of a script: Some(k) while the messages handled since the empty
\* store are exactly its first k and every call succeeded, None afterwards
Advance(progress, script, update, nominal) ==
    IF /\ progress # None
       /\ nominal
       /\ Get(progress) < Len(script)
       /\ update = script[Get(progress) + 1]
    THEN Some(Get(progress) + 1)
    ELSE None

\* what the history keeps of one handling
Handling(us, update, read_ok, io) ==
    [update |-> update,
     before |-> get_user_state(us, update.chat, TRUE),
     read |-> get_user_state(us, update.chat, read_ok),
     nominal |-> read_ok /\ io = "ok",
     reply |-> handle_update(us, update, read_ok, io).reply]

InitText ==
    /\ users = <<>> /\ invite_users = <<>> /\ setting = None
    /\ current = None /\ last = None /\ entered = <<>>
    /\ scen = [stated |-> Some(0), labelled |-> Some(0)]
    /\ TgIdle /\ PollIdle /\ PullerIdle /\ FetchIdle

TextHandle ==
    \E update \in TextInputs, f \in IoOutcomes :
        /\ users' = handle_update(users, update, f[1], f[2]).users
        /\ last' = Some(Handling(users, update, f[1], f[2]))
        /\ scen' =
            [stated |-> Advance(scen.stated, Script(T_Label2Ascii), update,
                                Nominal(f)),
             labelled |-> Advance(scen.labelled, Script(T_Label2), update,
                                  Nominal(f))]
        /\ UNCHANGED <<invite_users, setting, current>>
        /\ UNCHANGED <<entered, tgVars, pollVars, pullerVars, fetchVars>>

SpecText == InitText /\ [][TextHandle]_vars

\* the Session document of a chat, BlankUser when there is none
Session(c) == GetOr(find_one(users, "chat_id", c), BlankUser)

-----------------------------------------------------------------------------
(* SpecPoll: get_updates_and_process and start_polling against the          *)
(* platform's getUpdates.  The platform numbers the updates 1, 2, ...; a    *)
(* call with offset o confirms (forgets) every update below o and returns   *)
(* the first `limit` unconfirmed updates from o on; offset 0 returns from   *)
(* the earliest unconfirmed update.                                         *)

\* bounds of the model
MaxUpdates == 3
MaxDisruptions == 2
\* the batch size: get_updates is called with limit=10; the model batches
\* with a smaller limit so that a backlog longer than one batch occurs
GetUpdatesLimit == 2

Max(a, b) == IF a >= b THEN a ELSE b
Min(a, b) == IF a <= b THEN a ELSE b

PollInputs == {Msg(42, CmdStart), Msg(42, T_Ali)}

\* load_setting(key, default): the stored value, the default when there is
\* no document or the read fails
load_setting(st, default_value, ok) ==
    IF ok THEN GetOr(st, default_value) ELSE default_value

\* save_setting(key, value): upsert; nothing written when the write fails
save_setting(st, value, ok) == IF ok THEN Some(value) ELSE st

\* bot.get_updates(offset, limit): the update_ids returned
get_updates(queue, confirmed, offset, limit) ==
    LET from == Max(Max(confirmed, offset), 1)
        upto == Min(Len(queue), from + limit - 1) IN
    [i \in 1..Max(upto - from + 1, 0) |-> from + i - 1]

\* the offset left at the update just handled
acknowledge_same(update_id) == update_id

\* OFFSET = update.update_id + 1
acknowledge(update_id) == update_id + 1

\* the save done whether or not a batch came
batch_received_always(batch) == TRUE

\* `if updates:` guards the loop over the batch and the save after it
batch_received(batch) == batch # <<>>

\* the count of handle_update calls of one update, saturating
Count(n) == Min(n + 1, MaxDisruptions + 2)

InitPoll ==
    /\ StoreIdle
    /\ TgIdle
    /\ bot_pc = "load" /\ OFFSET = 0 /\ updates = <<>> /\ upd_i = 0
    /\ handled = [i \in 1..MaxUpdates |-> 0]
    /\ disruptions = 0
    /\ BotIdle /\ PullerIdle /\ FetchIdle

\* a chat sends a message: the platform queues an update
TgArrive ==
    /\ Len(tg_updates) < MaxUpdates
    /\ \E update \in PollInputs : tg_updates' = Append(tg_updates, update)
    /\ UNCHANGED <<tg_confirmed, storeVars, pollVars, botVars, pullerVars,
                   fetchVars>>

\* OFFSET = await self.db.load_setting("OFFSET", 0)
PollLoad ==
    /\ bot_pc = "load"
    /\ \E ok \in BOOLEAN :
        /\ ~ok => disruptions < MaxDisruptions
        /\ OFFSET' = load_setting(setting, 0, ok)
        /\ disruptions' = IF ok THEN disruptions ELSE disruptions + 1
    /\ bot_pc' = "get"
    /\ UNCHANGED <<updates, upd_i, handled, storeVars, tgVars, botVars,
                   pullerVars, fetchVars>>

\* the batch acknowledged in the store on receipt, before it is handled
PollGetAcknowledging ==
    /\ bot_pc = "get"
    /\ LET batch == get_updates(tg_updates, tg_confirmed, OFFSET,
                                GetUpdatesLimit) IN
        /\ updates' = batch
        /\ tg_confirmed' = Max(tg_confirmed, OFFSET)
        /\ upd_i' = 1
        /\ bot_pc' = IF batch # <<>> THEN "handle" ELSE "load"
        /\ setting' = IF batch # <<>>
                      THEN Some(acknowledge(batch[Len(batch)]))
                      ELSE setting
    /\ UNCHANGED <<OFFSET, handled, disruptions, tg_updates, users,
                   invite_users, botVars, pullerVars, fetchVars>>

\* updates = await self.bot.get_updates(offset=OFFSET, limit=10, ...)
PollGet ==
    /\ bot_pc = "get"
    /\ LET batch == get_updates(tg_updates, tg_confirmed, OFFSET,
                                GetUpdatesLimit) IN
        /\ updates' = batch
        /\ tg_confirmed' = Max(tg_confirmed, OFFSET)
        /\ upd_i' = 1
        /\ bot_pc' = IF ~batch_received(batch) THEN "load"
                     ELSE IF batch # <<>> THEN "handle" ELSE "save"
    /\ UNCHANGED <<OFFSET, handled, disruptions, tg_updates, storeVars,
                   botVars, pullerVars, fetchVars>>

\* get_updates raises: the except branch sleeps and returns False
PollGetFails ==
    /\ bot_pc = "get"
    /\ bot_pc' = "load"
    /\ UNCHANGED <<OFFSET, updates, upd_i, handled, disruptions, storeVars,
                   tgVars, botVars, pullerVars, fetchVars>>

\* a turn of the loop whose handle_update lets its exception out: the outer
\* except branch of get_updates_and_process ends the batch unsaved
PollHandleRaising ==
    /\ bot_pc = "handle"
    /\ \E f \in IoOutcomes :
        LET update_id == updates[upd_i]
            update == tg_updates[update_id]
            out == handle_update(users, update, f[1], f[2]) IN
        /\ users' = out.users
        /\ last' = Some(Handling(users, update, f[1], f[2]))
        /\ handled' = [handled EXCEPT ![update_id] = Count(@)]
        /\ OFFSET' = IF out.reply.kind = "error" THEN OFFSET
                     ELSE acknowledge(update_id)
        /\ bot_pc' = IF out.reply.kind = "error" THEN "load"
                     ELSE IF upd_i = Len(updates) THEN "save" ELSE "handle"
    /\ upd_i' = upd_i + 1
    /\ UNCHANGED entered
    /\ UNCHANGED <<updates, disruptions, invite_users, setting, tgVars,
                   current, scen, pullerVars, fetchVars>>

\* one turn of `for update in updates`: handle_update, then the offset
PollHandle ==
    /\ bot_pc = "handle"
    /\ \E f \in IoOutcomes :
        LET update_id == updates[upd_i]
            update == tg_updates[update_id] IN
        /\ users' = handle_update(users, update, f[1], f[2]).users
        /\ last' = Some(Handling(users, update, f[1], f[2]))
        /\ handled' = [handled EXCEPT ![update_id] = Count(@)]
        /\ OFFSET' = acknowledge(update_id)
    /\ upd_i' = upd_i + 1
    /\ bot_pc' = IF upd_i = Len(updates) THEN "save" ELSE "handle"
    /\ UNCHANGED entered
    /\ UNCHANGED <<updates, disruptions, invite_users, setting, tgVars,
                   current, scen, pullerVars, fetchVars>>

\* await self.db.save_setting("OFFSET", OFFSET)
PollSave ==
    /\ bot_pc = "save"
    /\ \E ok \in BOOLEAN :
        /\ ~ok => disruptions < MaxDisruptions
        /\ setting' = save_setting(setting, OFFSET, ok)
        /\ disruptions' = IF ok THEN disruptions ELSE disruptions + 1
    /\ bot_pc' = "load"
    /\ UNCHANGED <<OFFSET, updates, upd_i, handled, users, invite_users,
                   tgVars, botVars, pullerVars, fetchVars>>

\* the process ends at any point and is started again: the locals are lost
PollRestart ==
    /\ disruptions < MaxDisruptions
    /\ disruptions' = disruptions + 1
    /\ bot_pc' = "load" /\ OFFSET' = 0 /\ updates' = <<>> /\ upd_i' = 0
    /\ UNCHANGED <<handled, storeVars, tgVars, botVars, pullerVars,
                   fetchVars>>

NextPoll ==
    \/ TgArrive
    \/ PollLoad
    \/ PollGet
    \/ PollGetFails
    \/ PollHandle
    \/ PollSave
    \/ PollRestart

SpecPoll == InitPoll /\ [][NextPoll]_vars

\* the persisted Cursor, 0 while the setting does not exist
Cursor == GetOr(setting, 0)

-----------------------------------------------------------------------------
(* SpecRetry: the polling loop whose only failing call is get_updates; the  *)
(* loop keeps turning and get_updates succeeds again and again.             *)

\* no restart and no failing store call is left to the loop
InitRetry ==
    /\ StoreIdle
    /\ TgIdle
    /\ bot_pc = "load" /\ OFFSET = 0 /\ updates = <<>> /\ upd_i = 0
    /\ handled = [i \in 1..MaxUpdates |-> 0]
    /\ disruptions = MaxDisruptions
    /\ BotIdle /\ PullerIdle /\ FetchIdle

\* what the history keeps of the last failed get_updates: the offset it was
\* called with and the number of updates queued then
Failure(offset, queued) == [offset |-> offset, queued |-> queued]

\* a failed get_updates that ends start_polling
RetryGetFailsEnding ==
    /\ bot_pc = "get"
    /\ bot_pc' = "off"
    /\ scen' = Some(Failure(OFFSET, Len(tg_updates)))
    /\ UNCHANGED entered
    /\ UNCHANGED <<OFFSET, updates, upd_i, handled, disruptions, storeVars,
                   tgVars, current, last, pullerVars, fetchVars>>

\* get_updates raises: the except branch sleeps and returns False, and
\* start_polling sleeps and calls get_updates_and_process again
RetryGetFails ==
    /\ bot_pc = "get"
    /\ bot_pc' = "load"
    /\ scen' = Some(Failure(OFFSET, Len(tg_updates)))
    /\ UNCHANGED entered
    /\ UNCHANGED <<OFFSET, updates, upd_i, handled, disruptions, storeVars,
                   tgVars, current, last, pullerVars, fetchVars>>

NextRetry ==
    \/ TgArrive
    \/ PollLoad
    \/ PollGet
    \/ RetryGetFails
    \/ PollHandle
    \/ PollSave

SpecRetry ==
    /\ InitRetry /\ [][NextRetry]_vars
    /\ WF_vars(PollLoad) /\ SF_vars(PollGet)
    /\ WF_vars(PollHandle) /\ WF_vars(PollSave)

-----------------------------------------------------------------------------
(* APIClient: the paginated fetch, in its two variants.                     *)
(*   fetch_all_users               src/puller/app copy.py:77-184            *)
(*   fetch_all_users_until_no_new  src/puller/app.py:77-205                 *)
(* A provider record (item) has the optional fields uid, id, balanceVolume  *)
(* and registerTime.  The provider's answer to a request of page p is       *)
(* pages[p], [list, total], and an empty list beyond the last page.         *)

\* consecutive_existing_threshold = 10
consecutive_existing_threshold == 10

\* target_uid = "983265275"
target_uid == <<57, 56, 51, 50, 54, 53, 50, 55, 53>>

Item(uid, balance) ==
    [uid |-> Some(uid), id |-> None, balanceVolume |-> balance,
     registerTime |-> None, registerTimeFormatted |-> None]

\* a Python value that is falsy: an absent field, None or the empty string
Falsy(o) == o = None \/ o = Some(<<>>)

\* user_id = item.get("uid") or item.get("id")
user_id_of(item) ==
    IF ~Falsy(item.uid) THEN item.uid
    ELSE IF ~Falsy(item.id) THEN item.id
    ELSE None

\* user_exists(user_id): count_documents({"uid": user_id}) > 0, False when
\* the read fails
user_exists(known_uids, user_id, ok) == ok /\ user_id \in known_uids

\* the list of a page request: data["data"]["list"], empty when absent
page_list(pgs, page_index) ==
    IF page_index <= Len(pgs) THEN pgs[page_index].list ELSE <<>>

\* fetch_all_users, the loop over the items of a page: the new items and the
\* running count of consecutive existing users.  failing is the position of
\* the item whose user_exists call fails, 0 for none
RECURSIVE scan_page(_, _, _, _, _)
scan_page(items, i, known_uids, failing, acc) ==
    IF i > Len(items) THEN acc
    ELSE IF user_id_of(items[i]) = None
    THEN scan_page(items, i + 1, known_uids, failing,
                   [acc EXCEPT !.new_items = Append(@, items[i])])
    ELSE IF ~user_exists(known_uids, Get(user_id_of(items[i])), i # failing)
    THEN scan_page(items, i + 1, known_uids, failing,
                   [new_items |-> Append(acc.new_items, items[i]),
                    existing_users_found |-> 0])
    ELSE scan_page(items, i + 1, known_uids, failing,
                   [acc EXCEPT !.existing_users_found = @ + 1])

\* the locals of a fetch before its first request; nominal records that no
\* user_exists call of the fetch has failed
fetch_start(variant) ==
    [variant |-> variant, pc |-> "run", page_index |-> 1, all_data |-> <<>>,
     existing_users_found |-> 0, stop |-> "", nominal |-> TRUE]

\* a `break` that starts the pagination over instead of leaving the loop
Restarted(st, all_data, found, why) ==
    [st EXCEPT !.page_index = 1, !.all_data = <<>>,
               !.existing_users_found = 0]

Stopped(st, all_data, found, why) ==
    [st EXCEPT !.pc = "done", !.all_data = all_data,
               !.existing_users_found = found, !.stop = why]

\* fetch_all_users: one turn of `while True`, the request succeeding
fetch_all_users_page(st, pgs, known_uids, failing) ==
    LET items == page_list(pgs, st.page_index)
        scan == scan_page(items, 1, known_uids, failing,
                          [new_items |-> <<>>,
                           existing_users_found |->
                               st.existing_users_found])
        all_data == st.all_data \o scan.new_items
        total == IF st.page_index <= Len(pgs)
                 THEN GetOr(pgs[st.page_index].total, Len(all_data))
                 ELSE Len(all_data) IN
    IF items = <<>> THEN Stopped(st, st.all_data, st.existing_users_found,
                                 "empty")
    ELSE IF scan.existing_users_found >= consecutive_existing_threshold
    THEN Stopped(st, all_data, scan.existing_users_found, "existing")
    ELSE IF scan.new_items = <<>>
    THEN Stopped(st, all_data, scan.existing_users_found, "no_new")
    ELSE IF Len(all_data) >= total
    THEN Stopped(st, all_data, scan.existing_users_found, "total")
    ELSE [st EXCEPT !.page_index = @ + 1, !.all_data = all_data,
                    !.existing_users_found = scan.existing_users_found]

\* the items of a page that user_exists reports as absent (or that have no
\* id), in page order; keep_new = FALSE gives the existing ones
split_page(items, known_uids, failing, keep_new) ==
    LET is_new(i) ==
            \/ user_id_of(items[i]) = None
            \/ ~user_exists(known_uids, Get(user_id_of(items[i])),
                            i # failing)
        picked == {i \in 1..Len(items) : is_new(i) = keep_new}
        Nth(k) == CHOOSE i \in picked :
                     Cardinality({j \in picked : j < i}) = k - 1 IN
    [k \in 1..Cardinality(picked) |-> items[Nth(k)]]

\* a turn of fetch_all_users_until_no_new that gathers the new records only
fetch_until_no_new_page_new_only(st, pgs, known_uids, failing) ==
    LET items == page_list(pgs, st.page_index)
        target_found ==
            \E i \in 1..Len(items) : user_id_of(items[i]) = Some(target_uid)
        all_data == st.all_data
                    \o split_page(items, known_uids, failing, TRUE) IN
    IF items = <<>> THEN Stopped(st, st.all_data, 0, "empty")
    ELSE IF target_found THEN Stopped(st, all_data, 0, "target")
    ELSE [st EXCEPT !.page_index = @ + 1, !.all_data = all_data]

\* fetch_all_users_until_no_new: one turn of `while True`, the request
\* succeeding
fetch_until_no_new_page(st, pgs, known_uids, failing) ==
    LET items == page_list(pgs, st.page_index)
        target_found ==
            \E i \in 1..Len(items) : user_id_of(items[i]) = Some(target_uid)
        all_data == st.all_data
                    \o split_page(items, known_uids, failing, TRUE)
                    \o split_page(items, known_uids, failing, FALSE) IN
    IF items = <<>> THEN Stopped(st, st.all_data, 0, "empty")
    ELSE IF target_found THEN Stopped(st, all_data, 0, "target")
    ELSE [st EXCEPT !.page_index = @ + 1, !.all_data = all_data]

fetch_page(st, pgs, known_uids, failing) ==
    IF st.variant = "fetch_all_users"
    THEN fetch_all_users_page(st, pgs, known_uids, failing)
    ELSE fetch_until_no_new_page(st, pgs, known_uids, failing)

\* a failed request that hands the records gathered so far to the caller
fetch_raised_keeping(st) == [st EXCEPT !.pc = "raised"]

\* the request or the JSON decoding raises: the fetch logs and re-raises
fetch_raised(st) == [st EXCEPT !.pc = "raised", !.all_data = <<>>]

-----------------------------------------------------------------------------
(* SpecFetch: one fetch of either variant against provider pages that hold  *)
(* runs of known and of new records                                         *)

\* bound of the model: the number of pages the provider holds
MaxPages == 2

\* the uid of the n-th known and of the n-th new record: "K01".., "N01"..
KnownUid(n) == <<75, 48 + (n \div 10), 48 + (n % 10)>>
NewUid(n) == <<78, 48 + (n \div 10), 48 + (n % 10)>>

RunLengths ==
    {0, consecutive_existing_threshold - 1, consecutive_existing_threshold}

\* a page of a known records, then b new ones (the first of them the
\* sentinel when s), then c known ones
PagePattern(a, b, c, s) ==
    [i \in 1..(a + b + c) |->
        IF i <= a THEN Item(KnownUid(i), Some(0))
        ELSE IF i <= a + b
             THEN Item(IF s /\ i = a + 1 THEN target_uid ELSE NewUid(i - a),
                       Some(0))
        ELSE Item(KnownUid(i - b), Some(0))]

PageLists ==
    ({PagePattern(a, b, c, FALSE) :
        a \in RunLengths, b \in {0, 1}, c \in {0, 1}}
     \cup {PagePattern(0, 1, 0, TRUE)})
    \ {<<>>}

RECURSIVE TotalLen(_)
TotalLen(lists) ==
    IF lists = <<>> THEN 0 ELSE Len(Head(lists)) + TotalLen(Tail(lists))

\* the provider reports in every answer the number of records it holds, or
\* reports no total at all
ProviderPages ==
    {[p \in 1..Len(lists) |->
        [list |-> lists[p],
         total |-> IF reports THEN Some(TotalLen(lists)) ELSE None]] :
        lists \in UNION {[1..n -> PageLists] : n \in 1..MaxPages},
        reports \in BOOLEAN}

KnownUids == {KnownUid(n) : n \in 1..(2 * consecutive_existing_threshold)}

FetchVariants == {"fetch_all_users", "fetch_all_users_until_no_new"}

InitFetch ==
    /\ pages \in ProviderPages
    /\ known = KnownUids
    /\ \E variant \in FetchVariants : fetch = Some(fetch_start(variant))
    /\ StoreIdle /\ TgIdle /\ PollIdle /\ BotIdle /\ PullerIdle

\* the user_exists call that fails while a page is scanned: none, the one
\* for its first item or the one for its last
FailingChoices(items) == {0, Min(1, Len(items)), Len(items)}

\* one page request answered
FetchPage ==
    /\ fetch # None /\ Get(fetch).pc = "run"
    /\ \E failing \in
           FailingChoices(page_list(pages, Get(fetch).page_index)) :
        fetch' = Some([fetch_page(Get(fetch), pages, known, failing)
                          EXCEPT !.nominal = @ /\ failing = 0])
    /\ UNCHANGED <<pages, known>>
    /\ UNCHANGED <<pullerVars, storeVars, tgVars, pollVars, botVars>>

\* one page request raising
FetchPageFails ==
    /\ fetch # None /\ Get(fetch).pc = "run"
    /\ fetch' = Some(fetch_raised(Get(fetch)))
    /\ UNCHANGED <<pages, known>>
    /\ UNCHANGED <<pullerVars, storeVars, tgVars, pollVars, botVars>>

NextFetch == FetchPage \/ FetchPageFails

SpecFetch == InitFetch /\ [][NextFetch]_vars

\* pages for the fetch that keeps turning: one new record, one new and one
\* known record, the sentinel record alone, a run of known records as long
\* as the threshold
LivePageLists ==
    {PagePattern(0, 1, 0, FALSE), PagePattern(0, 1, 1, FALSE),
     PagePattern(0, 1, 0, TRUE),
     PagePattern(consecutive_existing_threshold, 0, 0, FALSE)}

LivePages ==
    {[p \in 1..Len(lists) |->
        [list |-> lists[p],
         total |-> IF reports THEN Some(TotalLen(lists)) ELSE None]] :
        lists \in UNION {[1..n -> LivePageLists] : n \in 1..MaxPages},
        reports \in BOOLEAN}

InitFetchLive ==
    /\ pages \in LivePages
    /\ known = KnownUids
    /\ \E variant \in FetchVariants : fetch = Some(fetch_start(variant))
    /\ StoreIdle /\ TgIdle /\ PollIdle /\ BotIdle /\ PullerIdle

\* the fetch whose `while True` keeps turning: an answered request is
\* followed by the next turn of the loop; no request is bound to fail
SpecFetchLive == InitFetchLive /\ [][NextFetch]_vars /\ WF_vars(FetchPage)

-----------------------------------------------------------------------------
(* main, STEP 1 after the fetch, and InviteUsersDatabase.batch_upsert_users *)
(* src/puller/app.py:226-258, 505-517.  A document of invite_users carries  *)
(* the fields of the provider record, registerTimeFormatted and updated_at. *)

BlankInvite ==
    [uid |-> None, id |-> None, balanceVolume |-> None, registerTime |-> None,
     registerTimeFormatted |-> None, updated_at |-> None]

\* datetime.fromtimestamp(ms / 1000).strftime("%Y-%m-%d %H:%M:%S"): the
\* time of the record to the second
format_register_time(ms) == ms \div 1000

\* main: `if "registerTime" in user`, for every fetched user
add_formatted(user) ==
    IF user.registerTime = None THEN user
    ELSE [user EXCEPT !.registerTimeFormatted =
                          Some(format_register_time(Get(user.registerTime)))]

with_formatted(batch) == [i \in 1..Len(batch) |-> add_formatted(batch[i])]

\* {**user, "updated_at": datetime.now()}: the fields the record carries
set_document(user, now) ==
    [f \in {g \in DOMAIN user : user[g] # None} \cup {"updated_at"} |->
        IF f = "updated_at" THEN Some(now) ELSE user[f]]

\* the UpdateOne operations of a batch: one per user that has an id
operations(batch, now) ==
    LET with_id == SelectSeq(batch, LAMBDA u : user_id_of(u) # None) IN
    [i \in 1..Len(with_id) |->
        [uid |-> Get(user_id_of(with_id[i])),
         set |-> set_document(with_id[i], now)]]

\* bulk_write(operations, ordered=False): the server applies the operations
\* in an order of its choosing; order lists the operations applied
RECURSIVE bulk_write(_, _, _)
bulk_write(coll, ops, order) ==
    IF order = <<>> THEN coll
    ELSE bulk_write(update_one(coll, BlankInvite, "uid", ops[Head(order)].uid,
                               ops[Head(order)].set, TRUE),
                    ops, Tail(order))

\* the ways of applying k of n operations, each at most once
Orders(n, k) ==
    {o \in [1..k -> 1..n] : \A i, j \in 1..k : o[i] = o[j] => i = j}

batch_upsert_users(coll, batch, now, order) ==
    bulk_write(coll, operations(batch, now), order)

\* the ids a batch saves
BatchIds(batch) ==
    {Get(user_id_of(batch[i])) :
        i \in {j \in 1..Len(batch) : user_id_of(batch[j]) # None}}

\* the records of a batch that are of an account id
Payloads(batch, id) ==
    {batch[i] : i \in {j \in 1..Len(batch) : user_id_of(batch[j]) = Some(id)}}

\* what the history keeps of the last batch saved, and every id saved so far
Ingestion(batch, at) ==
    [batch |-> batch, at |-> at,
     ids |-> BatchIds(batch)
             \cup (IF ingested = None THEN {} ELSE Get(ingested).ids)]

-----------------------------------------------------------------------------
(* SpecIngest: batches of provider records saved one call after another     *)

\* bounds of the model: records per batch, reconciliation cycles
MaxBatch == 2
MaxCycles == 2

\* if balance_volume >= 18
ThresholdBalance == 18

T_Uid2 == <<67, 68, 54, 55, 56, 57, 48>>

\* provider records: one account below the threshold, the same account
\* above it and with a registration time, a second account that carries
\* only `id`, a record without any id
IngestPayloads ==
    {Item(T_Uid, Some(ThresholdBalance - 1)),
     [Item(T_Uid, Some(25)) EXCEPT !.registerTime = Some(1500)],
     [Item(T_Uid2, Some(ThresholdBalance)) EXCEPT !.uid = None,
                                                  !.id = Some(T_Uid2)],
     [Item(T_Uid, Some(25)) EXCEPT !.uid = None]}

Batches == UNION {[1..n -> IngestPayloads] : n \in 0..MaxBatch}

InitIngest ==
    /\ users = <<>> /\ invite_users = <<>> /\ setting = None
    /\ pul_pc = "save" /\ new_users = <<>> /\ waiting_users = <<>>
    /\ wait_i = 0 /\ balance_volume = 0 /\ sent = <<>> /\ cycle = 0
    /\ sweep = None /\ ingested = None
    /\ TgIdle /\ PollIdle /\ BotIdle /\ FetchIdle

\* a cycle whose fetch returned batch: the timestamps are added and the
\* batch is saved
IngestSave ==
    /\ pul_pc = "save" /\ cycle < MaxCycles
    /\ \E batch \in Batches :
        LET saved == with_formatted(batch)
            n == Len(operations(saved, cycle + 1)) IN
        \E order \in Orders(n, n) :
            /\ invite_users' =
                   batch_upsert_users(invite_users, saved, cycle + 1, order)
            /\ ingested' = IF saved = <<>> THEN ingested
                           ELSE Some(Ingestion(saved, cycle + 1))
    /\ cycle' = cycle + 1
    /\ UNCHANGED <<users, setting, pul_pc, new_users, waiting_users, wait_i,
                   balance_volume, sent, sweep>>
    /\ UNCHANGED <<tgVars, pollVars, botVars, fetchVars>>

\* bulk_write raises after the server applied some of the operations: the
\* exception is re-raised and ends main
IngestSaveFails ==
    /\ pul_pc = "save" /\ cycle < MaxCycles
    /\ \E batch \in Batches \ {<<>>} :
        LET saved == with_formatted(batch)
            n == Len(operations(saved, cycle + 1)) IN
        \E k \in 0..n : \E order \in Orders(n, k) :
            /\ n > 0
            /\ invite_users' =
                   batch_upsert_users(invite_users, saved, cycle + 1, order)
    /\ cycle' = cycle + 1
    /\ pul_pc' = "crashed"
    /\ UNCHANGED <<users, setting, new_users, waiting_users, wait_i,
                   balance_volume, sent, sweep, ingested>>
    /\ UNCHANGED <<tgVars, pollVars, botVars, fetchVars>>

SpecIngest ==
    InitIngest /\ [][IngestSave \/ IngestSaveFails]_vars

-----------------------------------------------------------------------------
(* UsersDatabase and PaymentProcessor of the puller, src/puller/app.py      *)

\* the enumeration without its state filter: every Session that has a uid
get_users_with_uid(us, ok) ==
    IF ok THEN SelectSeq(us, LAMBDA d : d.uid # None) ELSE <<>>

\* the enumeration selecting the completed Sessions with the waiting ones
get_users_waiting_or_completed(us, ok) ==
    IF ok THEN SelectSeq(us, LAMBDA d : d.state \in {WAITING_PAYMENT,
                                                       COMPLETED})
    ELSE <<>>

\* get_users_in_waiting_payment_state: [] when the read fails
get_users_in_waiting_payment_state(us, ok) ==
    IF ok THEN SelectSeq(us, LAMBDA d : d.state = WAITING_PAYMENT) ELSE <<>>

\* a lookup that answers with the first stored account when the uid has
\* none
get_user_by_uid_first(coll, uid, ok) ==
    IF ~ok THEN None
    ELSE IF find_one(coll, "uid", uid) = None /\ coll # <<>>
    THEN Some(coll[1])
    ELSE find_one(coll, "uid", uid)

\* InviteUsersDatabase.get_user_by_uid: None when the read fails
get_user_by_uid(coll, uid, ok) ==
    IF ok THEN find_one(coll, "uid", uid) ELSE None

\* float(invite_user.get("balanceVolume", 0))
balance_of(invite_user) == GetOr(invite_user.balanceVolume, 0)

\* balance_volume >= 18 with a strict comparison
sufficient_strict(balance) == balance > ThresholdBalance

\* the threshold the docstring and the log text of the sweep name
sufficient_documented(balance) == balance >= ThresholdBalance + 2

\* if balance_volume >= 18
sufficient(balance) == balance >= ThresholdBalance

\* the promotion stamping the balance and leaving the state as it is
update_user_state_stamping(us, chat_id, balance, now) ==
    update_one(us, BlankUser, "chat_id", chat_id,
               [balanceVolume |-> Some(balance),
                payment_confirmed_at |-> Some(now)], FALSE)

\* the promotion written as a replacement of the document instead of a $set
update_user_state_replacing(us, chat_id, balance, now) ==
    update_one(us, BlankUser, "chat_id", chat_id,
               [BlankUser EXCEPT !.chat_id = Some(chat_id),
                                 !.state = COMPLETED,
                                 !.balanceVolume = Some(balance),
                                 !.payment_confirmed_at = Some(now)], FALSE)

\* update_user_state_to_completed: update_one without upsert
update_user_state_to_completed(us, chat_id, balance, now) ==
    update_one(us, BlankUser, "chat_id", chat_id,
               [state |-> COMPLETED, balanceVolume |-> Some(balance),
                payment_confirmed_at |-> Some(now)], FALSE)

\* the whole paginated fetch of a cycle, every request answered
RECURSIVE run_fetch(_, _, _)
run_fetch(st, pgs, known_uids) ==
    IF st.pc # "run" THEN st
    ELSE run_fetch(fetch_page(st, pgs, known_uids, 0), pgs, known_uids)

\* the uids of the stored accounts
StoredUids(coll) ==
    {Get(coll[i].uid) : i \in {j \in 1..Len(coll) : coll[j].uid # None}}

-----------------------------------------------------------------------------
(* SpecSession: one chat walking the whole conversation, one text of each   *)
(* kind, handle_update as one step; between two handlings the sweep may     *)
(* promote the Session it finds waiting.                                    *)

SessionTexts ==
    {CmdStart, CmdCancel, T_Help, T_SlashPhone, T_Ali, T_Label2, T_Uid,
     T_UidFarsi, T_UidShort}

SessionInputs ==
    {Msg(42, t) : t \in SessionTexts} \cup {ContactMsg(42, T_Phone)}

InitSession ==
    /\ users = <<>> /\ invite_users = <<>> /\ setting = None
    /\ BotIdle
    /\ TgIdle /\ PollIdle /\ PullerIdle /\ FetchIdle

SessionHandle ==
    \E update \in SessionInputs, f \in IoOutcomes :
        /\ users' = handle_update(users, update, f[1], f[2]).users
        /\ last' = Some(Handling(users, update, f[1], f[2]))
        /\ UNCHANGED <<invite_users, setting, current, scen>>
        /\ UNCHANGED <<entered, tgVars, pollVars, pullerVars, fetchVars>>

\* process_waiting_payment_users for the one Session, from the enumeration
\* that finds it waiting to the promotion write, with a balance at the
\* threshold; the history of the last handling ends here
SessionPromote ==
    /\ Session(42).state = WAITING_PAYMENT
    /\ users' = update_user_state_to_completed(users, 42, ThresholdBalance, 1)
    /\ last' = None
    /\ UNCHANGED <<invite_users, setting, current, scen>>
    /\ UNCHANGED <<entered, tgVars, pollVars, pullerVars, fetchVars>>

SpecSession ==
    InitSession /\ [][SessionHandle \/ SessionPromote]_vars

-----------------------------------------------------------------------------
(* Spec: the inbound handling (state read, then routing) and the            *)
(* reconciliation loop of main, interleaved step by step on the shared      *)
(* store.  The Sessions of chats 42 and 43 start where the onboarding       *)
(* leaves them, in WAITING_PAYMENT with their account ids; the account of   *)
(* chat 43 is stored below the threshold and chat 43 sends nothing.         *)

Chats == {42, 43}

WaitingSession(c, uid) ==
    [BlankUser EXCEPT !.chat_id = Some(c), !.state = WAITING_PAYMENT,
                      !.name = Some(T_Ali), !.phone = Some(T_Phone),
                      !.capital = Some(T_Label2), !.uid = Some(uid)]

\* inbound events: the two commands, an unknown command, a plain text
SpecInputs == {Msg(42, t) : t \in {CmdStart, CmdCancel, T_Help, T_Ali}}

\* the outcomes of the store calls of one handling; no handler reachable
\* from these inputs calls get_user_data
SpecOutcomes == IoOutcomes \ {<<TRUE, "read_fails">>}

Page(list) == [list |-> list, total |-> None]

\* what the provider holds in a cycle: nothing, or the account of chat 42
\* one unit below the threshold, at the threshold, above it
SpecPages ==
    {<<>>,
     <<Page(<<Item(T_Uid, Some(ThresholdBalance - 1))>>)>>,
     <<Page(<<Item(T_Uid, Some(ThresholdBalance))>>)>>,
     <<Page(<<Item(T_Uid, Some(25))>>)>>}

\* the account of chat 43 as an earlier cycle saved it, one unit below the
\* threshold
StoredBelow ==
    SetFields(BlankInvite,
              set_document(Item(T_Uid2, Some(ThresholdBalance - 1)), 0))

\* what the history keeps of one routing: the state read, the state stored
\* before and after, whether the store was written, the reply
Routed(us, update, read, nominal, io) ==
    [update |-> update,
     before |-> get_user_state(us, update.chat, TRUE),
     read |-> read,
     nominal |-> nominal,
     reply |-> route(us, update, read, io).reply,
     after |-> get_user_state(route(us, update, read, io).users,
                              update.chat, TRUE),
     wrote |-> route(us, update, read, io).users # us]

\* the record of account AB12345 with balance 25 is the only record of that
\* account in the batch
IngestsScenario(batch) == Payloads(batch, T_Uid) = {Item(T_Uid, Some(25))}

Init ==
    /\ users = <<WaitingSession(42, T_Uid), WaitingSession(43, T_Uid2)>>
    /\ invite_users = <<StoredBelow>> /\ setting = None
    /\ current = None /\ last = None /\ scen = None /\ entered = <<>>
    /\ pul_pc = "top" /\ new_users = <<>> /\ waiting_users = <<>>
    /\ wait_i = 0 /\ balance_volume = 0 /\ cycle = 0
    /\ sent = [c \in Chats |-> 0]
    /\ sweep = None /\ ingested = None
    /\ TgIdle /\ PollIdle /\ FetchIdle

\* handle_update up to `current_state = await get_user_state(chat_id)`;
\* the history of the previous handling ends here
BotRead ==
    /\ current = None
    /\ \E update \in SpecInputs, f \in SpecOutcomes :
        current' = Some([update |-> update, f |-> f,
                         state |-> get_user_state(users, update.chat, f[1])])
    /\ last' = None
    /\ scen' = None
    /\ UNCHANGED entered
    /\ UNCHANGED <<storeVars, tgVars, pollVars, pullerVars, fetchVars>>

\* handle_update from the command test on
BotRoute ==
    /\ current # None
    /\ LET c == Get(current) IN
        /\ users' = route(users, c.update, c.state, c.f[2]).users
        /\ last' = Some(Routed(users, c.update, c.state, Nominal(c.f),
                               c.f[2]))
    /\ current' = None
    /\ scen' = None
    /\ UNCHANGED entered
    /\ UNCHANGED <<invite_users, setting, tgVars, pollVars, pullerVars,
                   fetchVars>>

\* main, STEP 1: new_users = await fetch_all_users_until_no_new(...); the
\* histories of the previous cycle end here
PullerFetch ==
    /\ pul_pc = "top" /\ cycle < MaxCycles
    /\ \E pgs \in SpecPages :
        new_users' =
            run_fetch(fetch_start("fetch_all_users_until_no_new"), pgs,
                      StoredUids(invite_users)).all_data
    /\ cycle' = cycle + 1
    /\ pul_pc' = "save"
    /\ sweep' = None /\ ingested' = None
    /\ UNCHANGED <<waiting_users, wait_i, balance_volume, sent>>
    /\ UNCHANGED <<storeVars, tgVars, pollVars, botVars, fetchVars>>

\* a page request raises: the fetch re-raises and main ends, its locals with
\* it
PullerFetchFails ==
    /\ pul_pc = "top" /\ cycle < MaxCycles
    /\ cycle' = cycle + 1
    /\ pul_pc' = "crashed"
    /\ scen' = None
    /\ new_users' = <<>>
    /\ sweep' = None /\ ingested' = None
    /\ UNCHANGED <<waiting_users, wait_i, balance_volume, sent>>
    /\ UNCHANGED entered
    /\ UNCHANGED <<storeVars, current, last, tgVars, pollVars, fetchVars>>

\* a STEP 1 that goes on to the sweep with the batch not yet written
PullerSaveDeferred ==
    /\ pul_pc = "save"
    /\ LET saved == with_formatted(new_users) IN
        /\ new_users' = saved
        /\ ingested' = IF saved = <<>> THEN ingested
                       ELSE Some(Ingestion(saved, cycle))
    /\ pul_pc' = "enumerate"
    /\ UNCHANGED <<storeVars, waiting_users, wait_i, balance_volume,
                   sent, cycle, sweep, scen>>
    /\ UNCHANGED <<entered, current, last, tgVars, pollVars, fetchVars>>

\* main, STEP 1: `if new_users:` the timestamps and batch_upsert_users
PullerSave ==
    /\ pul_pc = "save"
    /\ LET saved == with_formatted(new_users)
           n == Len(operations(saved, cycle)) IN
        /\ \E order \in Orders(n, n) :
            invite_users' =
                batch_upsert_users(invite_users, saved, cycle, order)
        /\ new_users' = saved
        /\ ingested' = IF saved = <<>> THEN ingested
                       ELSE Some(Ingestion(saved, cycle))
        /\ scen' = IF /\ scen = None /\ current = None
                      /\ IngestsScenario(saved)
                      /\ Session(42).state = WAITING_PAYMENT
                      /\ Session(42).uid = Some(T_Uid)
                   THEN Some([cycle |-> cycle, sent |-> sent[42]])
                   ELSE scen
    /\ pul_pc' = "enumerate"
    /\ UNCHANGED <<users, setting, waiting_users, wait_i, balance_volume,
                   sent, cycle, sweep>>
    /\ UNCHANGED <<entered, current, last, tgVars, pollVars, fetchVars>>

\* bulk_write raises after the server applied some of the operations
PullerSaveFails ==
    /\ pul_pc = "save"
    /\ LET saved == with_formatted(new_users)
           n == Len(operations(saved, cycle)) IN
        /\ n > 0
        /\ \E k \in 0..n : \E order \in Orders(n, k) :
            invite_users' =
                batch_upsert_users(invite_users, saved, cycle, order)
        /\ new_users' = <<>>
    /\ pul_pc' = "crashed"
    /\ scen' = None
    /\ UNCHANGED <<users, setting, waiting_users, wait_i, balance_volume,
                   sent, cycle, sweep, ingested>>
    /\ UNCHANGED <<entered, current, last, tgVars, pollVars, fetchVars>>

\* where the sweep goes after the waiting user at wait_i: to the next one,
\* or it returns to main and its locals end
AfterUser == IF wait_i < Len(waiting_users) THEN "lookup" ELSE "top"
NextUser == IF wait_i < Len(waiting_users) THEN wait_i + 1 ELSE 0
NextWaiting == IF wait_i < Len(waiting_users) THEN waiting_users ELSE <<>>

\* the sweep returns to main after the waiting user at wait_i, whatever
\* users remain
ReturnAfterUser(balance) ==
    /\ pul_pc' = "top"
    /\ wait_i' = 0
    /\ waiting_users' = <<>>
    /\ balance_volume' = 0

\* the sweep moves on after the waiting user at wait_i; balance is what
\* balance_volume holds then
ToNextUser(balance) ==
    /\ pul_pc' = AfterUser
    /\ wait_i' = NextUser
    /\ waiting_users' = NextWaiting
    /\ balance_volume' = IF AfterUser = "top" THEN 0 ELSE balance

\* process_waiting_payment_users: the enumeration, `if not waiting_users`
SweepEnumerate ==
    /\ pul_pc = "enumerate"
    /\ \E ok \in BOOLEAN :
        /\ waiting_users' = get_users_in_waiting_payment_state(users, ok)
        /\ scen' = IF ok THEN scen ELSE None
    /\ pul_pc' = IF waiting_users' = <<>> THEN "top" ELSE "lookup"
    /\ wait_i' = IF waiting_users' = <<>> THEN 0 ELSE 1
    /\ UNCHANGED <<new_users, balance_volume, sent, cycle, sweep, ingested>>
    /\ UNCHANGED entered
    /\ UNCHANGED <<storeVars, current, last, tgVars, pollVars, fetchVars>>

\* what the history keeps of the sweep's decision on one waiting user
Decision(bot_user, invite_user, balance, decision) ==
    [chat |-> Get(bot_user.chat_id), uid |-> bot_user.uid,
     account |-> invite_user, balance |-> balance, decision |-> decision,
     stage |-> "looked_up", ok |-> TRUE,
     before |-> Session(Get(bot_user.chat_id)),
     after |-> Session(Get(bot_user.chat_id))]

\* one turn of `for bot_user in waiting_users` up to the threshold test
SweepLookup ==
    /\ pul_pc = "lookup"
    /\ LET bot_user == waiting_users[wait_i] IN
        IF Falsy(bot_user.uid)
        THEN /\ sweep' = Some(Decision(bot_user, None, 0, "no_uid"))
             /\ ToNextUser(balance_volume)
             /\ UNCHANGED scen
        ELSE \E ok \in BOOLEAN :
            LET invite_user ==
                    get_user_by_uid(invite_users, Get(bot_user.uid), ok)
                balance == balance_of(Get(invite_user)) IN
            /\ scen' = IF ok THEN scen ELSE None
            /\ IF invite_user = None
               THEN /\ sweep' = Some(Decision(bot_user, None, 0, "not_found"))
                    /\ ToNextUser(balance_volume)
               ELSE IF sufficient(balance)
               THEN /\ sweep' = Some(Decision(bot_user, invite_user, balance,
                                              "promote"))
                    /\ balance_volume' = balance
                    /\ pul_pc' = "promote"
                    /\ UNCHANGED <<wait_i, waiting_users>>
               ELSE /\ sweep' = Some(Decision(bot_user, invite_user, balance,
                                              "below"))
                    /\ ToNextUser(balance)
    /\ UNCHANGED <<new_users, sent, cycle, ingested>>
    /\ UNCHANGED entered
    /\ UNCHANGED <<storeVars, current, last, tgVars, pollVars, fetchVars>>

\* the promotion write followed by the notification whatever it returned
SweepPromoteUnchecked ==
    /\ pul_pc = "promote"
    /\ LET chat == Get(waiting_users[wait_i].chat_id) IN
        \E ok \in BOOLEAN :
            LET written == IF ok
                           THEN update_user_state_to_completed(
                                    users, chat, balance_volume, cycle)
                           ELSE users
                success == ok /\ matched_count(users, "chat_id", chat) > 0 IN
            /\ users' = written
            /\ sweep' = Some([Get(sweep) EXCEPT
                                !.stage = "written", !.ok = success,
                                !.before = Session(chat),
                                !.after = GetOr(find_one(written, "chat_id",
                                                         chat), BlankUser)])
            /\ scen' = IF ok THEN scen ELSE None
            /\ pul_pc' = "notify"
            /\ UNCHANGED <<wait_i, waiting_users, balance_volume>>
    /\ UNCHANGED <<new_users, sent, cycle, ingested>>
    /\ UNCHANGED entered
    /\ UNCHANGED <<invite_users, setting, current, last, tgVars, pollVars,
                   fetchVars>>

\* the promotion write; success is modified_count > 0, False when the write
\* raises
SweepPromote ==
    /\ pul_pc = "promote"
    /\ LET chat == Get(waiting_users[wait_i].chat_id) IN
        \E ok \in BOOLEAN :
            LET written == IF ok
                           THEN update_user_state_to_completed(
                                    users, chat, balance_volume, cycle)
                           ELSE users
                success == ok /\ matched_count(users, "chat_id", chat) > 0 IN
            /\ users' = written
            /\ sweep' = Some([Get(sweep) EXCEPT
                                !.stage = "written", !.ok = success,
                                !.before = Session(chat),
                                !.after = GetOr(find_one(written, "chat_id",
                                                         chat), BlankUser)])
            /\ scen' = IF ok THEN scen ELSE None
            /\ IF success
               THEN /\ pul_pc' = "notify"
                    /\ UNCHANGED <<wait_i, waiting_users, balance_volume>>
               ELSE ToNextUser(balance_volume)
    /\ UNCHANGED <<new_users, sent, cycle, ingested>>
    /\ UNCHANGED entered
    /\ UNCHANGED <<invite_users, setting, current, last, tgVars, pollVars,
                   fetchVars>>

\* _send_completion_message without its try: a failed send raises through
\* the sweep to main
SweepNotifyRaising ==
    /\ pul_pc = "notify"
    /\ LET chat == Get(waiting_users[wait_i].chat_id) IN
        \E ok \in BOOLEAN :
            /\ sent' = IF ok THEN [sent EXCEPT ![chat] = @ + 1] ELSE sent
            /\ scen' = IF ok THEN scen ELSE None
            /\ IF ok THEN ToNextUser(balance_volume)
               ELSE /\ pul_pc' = "crashed"
                    /\ wait_i' = 0 /\ waiting_users' = <<>>
                    /\ balance_volume' = 0
    /\ UNCHANGED <<new_users, cycle, sweep, ingested>>
    /\ UNCHANGED entered
    /\ UNCHANGED <<storeVars, current, last, tgVars, pollVars, fetchVars>>

\* _send_completion_message: a failed send is logged and dropped
SweepNotify ==
    /\ pul_pc = "notify"
    /\ LET chat == Get(waiting_users[wait_i].chat_id) IN
        \E ok \in BOOLEAN :
            /\ sent' = IF ok THEN [sent EXCEPT ![chat] = @ + 1] ELSE sent
            /\ scen' = IF ok THEN scen ELSE None
    /\ ToNextUser(balance_volume)
    /\ UNCHANGED <<new_users, cycle, sweep, ingested>>
    /\ UNCHANGED entered
    /\ UNCHANGED <<storeVars, current, last, tgVars, pollVars, fetchVars>>

Next ==
    \/ BotRead \/ BotRoute
    \/ PullerFetch \/ PullerFetchFails \/ PullerSave \/ PullerSaveFails
    \/ SweepEnumerate \/ SweepLookup \/ SweepPromote \/ SweepNotify

Spec == Init /\ [][Next]_vars

-----------------------------------------------------------------------------
(* SpecInput: one handling of one input by a Session that the conversation  *)
(* has brought to NAME, PHONE, CAPITAL or UID, or whose stored state is no  *)
(* value of States; the inputs lie around the limits of every validator.    *)

InputStates == {NAME, PHONE, CAPITAL, UID}

\* a state value that is none of States, as a document of the collection
\* written by something else than this bot may hold
LegacyState == "LEGACY"

StoredStates == InputStates \cup {LegacyState}

\* the Session as the handlers before state st left it; the document with
\* the legacy state holds every collected field
StagedSession(st) ==
    [BlankUser EXCEPT
        !.chat_id = Some(42), !.state = st,
        !.name = IF st \in {PHONE, CAPITAL, UID, LegacyState}
                 THEN Some(T_Ali) ELSE None,
        !.phone = IF st \in {CAPITAL, UID, LegacyState}
                  THEN Some(T_Phone) ELSE None,
        !.capital = IF st \in {UID, LegacyState}
                    THEN Some(T_Label2) ELSE None,
        !.uid = IF st = LegacyState THEN Some(T_Uid) ELSE None]

T_PhoneSpaced == <<48, 57, 49, 50, 32, 51, 52, 53, 45, 54, 55, 56, 57>>
T_PhoneFarsi ==
    <<1776, 1785, 1777, 1778, 1779, 1780, 1781, 1782, 1783, 1784, 1785>>
T_PhoneLatePlus == <<48, 57, 49, 50, 51, 52, 53, 54, 55, 56, 43, 57>>
T_PhoneEarlyPlus == <<48, 57, 49, 50, 51, 43, 52, 53, 54, 55, 56, 57>>

\* phone texts: 9, 10, 15 and 16 digits, with and without a leading +,
\* spaced, in Persian digits, with a + inside, letters only
PhoneTexts ==
    {T_Phone, T_ShortPhone, T_PhoneSpaced, T_PhoneFarsi, T_PhoneLatePlus,
     T_PhoneEarlyPlus, T_UidShort,
     Nines(PhoneMinDigits - 1), Nines(PhoneMinDigits),
     Nines(PhoneMaxDigits), Nines(PhoneMaxDigits + 1),
     <<PlusSign>> \o Nines(PhoneMinDigits - 1),
     <<PlusSign>> \o Nines(PhoneMaxDigits),
     <<PlusSign>> \o Nines(PhoneMaxDigits + 1)}

T_UidPadded == <<32, 65, 66, 49, 50, 51, 52, 53, 32>>
T_UidInnerSpace == <<65, 66, 49, 50, 51, 52, 32, 53>>
T_UidEarlySpace == <<65, 66, 49, 32, 50, 51, 52, 53>>
T_UidBang == <<65, 66, 49, 50, 51, 52, 53, 33>>
T_UidMixedFarsi == <<65, 66, 1777, 1778, 1779, 1780>>
T_UidArabic == <<1633, 1634, 1635, 1636, 1637, 1638>>

\* account ids: 5, 6, 20 and 21 characters, padded, in Persian digits, in
\* Arabic-Indic digits, Persian letters, a space or a sign inside
UidTexts ==
    {T_Uid, T_UidFarsi, T_UidShort, T_UidPadded, T_UidInnerSpace,
     T_UidEarlySpace, T_UidBang, T_UidMixedFarsi, T_UidArabic, T_Farsi,
     Repeat(97, UidMinLen - 1), Repeat(97, UidMinLen),
     Repeat(97, UidMaxLen), Repeat(97, UidMaxLen + 1)}

T_Label2Padded == <<32>> \o T_Label2 \o <<32>>
T_Label2Bare == <<1778>>

\* capital texts: the five labels, the second label with an ASCII 2, padded,
\* its number alone
CapitalTexts == valid_options \cup {T_Label2Ascii, T_Label2Padded, T_Label2Bare}

InputTexts ==
    NameTexts \cup PhoneTexts \cup UidTexts \cup CapitalTexts
    \cup {CmdStart, CmdCancel, T_Help, T_SlashPhone}

Inputs ==
    {Msg(42, t) : t \in InputTexts}
    \cup {ContactMsg(42, t) : t \in {T_Phone, Nines(PhoneMaxDigits + 1),
                                     T_ShortPhone}}

InitInput ==
    /\ \E st \in StoredStates : users = <<StagedSession(st)>>
    /\ invite_users = <<>> /\ setting = None
    /\ BotIdle
    /\ TgIdle /\ PollIdle /\ PullerIdle /\ FetchIdle

\* handle_update for the one input
InputHandle ==
    /\ last = None
    /\ \E update \in Inputs, f \in IoOutcomes :
        /\ users' = handle_update(users, update, f[1], f[2]).users
        /\ last' = Some(Handling(users, update, f[1], f[2]))
    /\ UNCHANGED <<invite_users, setting, current, scen>>
    /\ UNCHANGED <<entered, tgVars, pollVars, pullerVars, fetchVars>>

SpecInput == InitInput /\ [][InputHandle]_vars

-----------------------------------------------------------------------------
(* SpecSweep: one run of process_waiting_payment_users over the two waiting *)
(* Sessions, each account absent from the store or stored below, at or     *)
(* above the threshold; every call of the sweep may fail.                   *)

\* an account as a cycle saved it
StoredAccount(uid, balance) ==
    SetFields(BlankInvite, set_document(Item(uid, Some(balance)), 0))

\* the stored balances of an account: none, one unit below the threshold,
\* the threshold, above it
SweepBalances ==
    {None, Some(ThresholdBalance - 1), Some(ThresholdBalance), Some(25)}

\* the accounts stored for the two balances
SweepStore(b1, b2) ==
    (IF b1 = None THEN <<>> ELSE <<StoredAccount(T_Uid, Get(b1))>>)
    \o (IF b2 = None THEN <<>> ELSE <<StoredAccount(T_Uid2, Get(b2))>>)

\* the waiting Session of chat 42: with its uid, or without one as a
\* document written by something else than the bot may be
SweepSessions ==
    {WaitingSession(42, T_Uid), [WaitingSession(42, T_Uid) EXCEPT !.uid = None]}

InitSweep ==
    /\ \E first \in SweepSessions :
        users = <<first, WaitingSession(43, T_Uid2)>>
    /\ \E b1 \in SweepBalances, b2 \in SweepBalances :
        invite_users = SweepStore(b1, b2)
    /\ setting = None
    /\ BotIdle
    /\ pul_pc = "enumerate" /\ new_users = <<>> /\ waiting_users = <<>>
    /\ wait_i = 0 /\ balance_volume = 0 /\ cycle = 1
    /\ sent = [c \in Chats |-> 0]
    /\ sweep = None /\ ingested = None
    /\ TgIdle /\ PollIdle /\ FetchIdle

SpecSweep ==
    InitSweep
    /\ [][SweepEnumerate \/ SweepLookup \/ SweepPromote \/ SweepNotify]_vars

-----------------------------------------------------------------------------
(* SpecLive: the reconciliation loop alone, every call succeeding, the loop *)
(* kept turning; the account of Session 42 may have been saved by an        *)
(* earlier cycle that did not promote the Session.                          *)

InitLive ==
    /\ users = <<WaitingSession(42, T_Uid), WaitingSession(43, T_Uid2)>>
    /\ \E b \in SweepBalances :
        invite_users = <<StoredBelow>>
                       \o (IF b = None THEN <<>>
                           ELSE <<StoredAccount(T_Uid, Get(b))>>)
    /\ setting = None
    /\ BotIdle
    /\ pul_pc = "top" /\ new_users = <<>> /\ waiting_users = <<>>
    /\ wait_i = 0 /\ balance_volume = 0 /\ cycle = 0
    /\ sent = [c \in Chats |-> 0]
    /\ sweep = None /\ ingested = None
    /\ TgIdle /\ PollIdle /\ FetchIdle

\* the steps of the cycle whose calls succeed
LiveEnumerate ==
    /\ SweepEnumerate
    /\ waiting_users' = get_users_in_waiting_payment_state(users, TRUE)

LiveLookup ==
    /\ SweepLookup
    /\ Get(sweep').decision = "not_found" =>
           get_user_by_uid(invite_users, Get(Get(sweep').uid), TRUE) = None

LivePromote == SweepPromote /\ Get(sweep').ok

NextLive ==
    \/ PullerFetch \/ PullerSave
    \/ LiveEnumerate \/ LiveLookup \/ LivePromote \/ SweepNotify

SpecLive == InitLive /\ [][NextLive]_vars /\ WF_vars(NextLive)

-----------------------------------------------------------------------------
(* SpecRace: the reconciliation cycles, their fetch returning nothing, with *)
(* Session 42 waiting and its account stored at or above the threshold,     *)
(* against the whole conversation of chat 42: between any two steps of a    *)
(* sweep the chat may restart and submit an account id again.  The entries  *)
(* of each Session into WAITING_PAYMENT are counted.                        *)

MaxEntries == 2

RaceInputs ==
    {Msg(42, t) : t \in {CmdStart, CmdCancel, T_Ali, T_Label2, T_Uid,
                         T_UidFarsi}}
    \cup {ContactMsg(42, T_Phone)}

InitRace ==
    /\ users = <<WaitingSession(42, T_Uid)>>
    /\ \E b \in {ThresholdBalance, ThresholdBalance + 7} :
        invite_users = <<StoredAccount(T_Uid, b)>>
    /\ setting = None
    /\ current = None /\ last = None /\ scen = None
    /\ entered = [c \in Chats |-> IF c = 42 THEN 1 ELSE 0]
    /\ pul_pc = "top" /\ new_users = <<>> /\ waiting_users = <<>>
    /\ wait_i = 0 /\ balance_volume = 0 /\ cycle = 0
    /\ sent = [c \in Chats |-> 0]
    /\ sweep = None /\ ingested = None
    /\ TgIdle /\ PollIdle /\ FetchIdle

\* handle_update on a message of the chat, every call of it failing or not;
\* a handling that takes the Session into WAITING_PAYMENT is counted
RaceHandle ==
    \E update \in RaceInputs, f \in IoOutcomes :
        /\ users' = handle_update(users, update, f[1], f[2]).users
        /\ entered' =
            [entered EXCEPT ![update.chat] =
                IF /\ Session(update.chat).state # WAITING_PAYMENT
                   /\ Session(update.chat)'.state = WAITING_PAYMENT
                THEN @ + 1 ELSE @]
        /\ entered'[update.chat] <= MaxEntries
        /\ UNCHANGED <<invite_users, setting, current, last, scen>>
        /\ UNCHANGED <<tgVars, pollVars, pullerVars, fetchVars>>

NextRace ==
    \/ RaceHandle
    \/ PullerFetch /\ new_users' = <<>>
    \/ PullerSave
    \/ SweepEnumerate \/ SweepLookup \/ SweepPromote \/ SweepNotify

SpecRace == InitRace /\ [][NextRace]_vars

-----------------------------------------------------------------------------
(* Properties of the conversation engine, checked under SpecText *)

\* the state and fields the scenario names after k of its messages
ScenarioReached(progress) ==
    /\ progress = Some(1) => Session(42).state = NAME
    /\ progress = Some(2) =>
          Session(42).state = PHONE /\ Session(42).name = Some(T_Ali)
    /\ progress = Some(3) => Session(42).state = CAPITAL
    /\ progress = Some(4) => Session(42).state = UID
    /\ progress = Some(5) =>
          /\ Session(42).state = WAITING_PAYMENT
          /\ Session(42).uid = Some(T_Uid)

\* C5 as stated: from no Session for chat 42, the messages /start, "Ali",
\* contact +989121234567, "2- ۱۰ تا ۳۰ میلیون" (ASCII 2), "AB12345" lead
\* through NAME, PHONE with name "Ali", CAPITAL, UID (ACCOUNT_ID) to
\* WAITING_PAYMENT with uid "AB12345".
C5_ScenarioAsStated == ScenarioReached(scen.stated)

\* C5 amended: the same scenario with the capital label as valid_options
\* spells it, "۲- ۱۰ تا ۳۰ میلیون" (Persian digit two), every store call
\* succeeding, leads through NAME, PHONE with name "Ali", CAPITAL, UID to
\* WAITING_PAYMENT with uid "AB12345".
C5_ScenarioWithLabel == ScenarioReached(scen.labelled)

C5_Witness ==
    /\ scen.labelled = Some(5)
    /\ Session(42).state = WAITING_PAYMENT
    /\ Get(last).reply.kind = "summary"

\* Unicode letters among the code points the inputs use: ASCII letters and
\* the letters of the Arabic block
IsLetter(c) ==
    \/ IsAsciiLetter(c)
    \/ c \in (1568..1610) \cup (1646..1647) \cup (1649..1747)

\* the shape the name rule states: 2 to 30 characters, letters and whitespace
NameShape(t) ==
    /\ Len(t) >= NameMinLen /\ Len(t) <= NameMaxLen
    /\ \A i \in 1..Len(t) : IsLetter(t[i]) \/ IsSpace(t[i])

\* C7: a non-command message handled in state NAME (every store call
\* succeeding) moves the Session to PHONE and stores the trimmed name when
\* the trimmed text is 2 to 30 letters and whitespace; any other text
\* leaves the state NAME and is answered with a validation reason.
C7_NameRule ==
    (/\ last # None
     /\ Get(last).before = NAME
     /\ Get(last).nominal
     /\ ~startswith(Get(last).update.text, SlashChar))
    => IF NameShape(strip(Get(last).update.text))
       THEN /\ Session(42).state = PHONE
            /\ Session(42).name = Some(strip(Get(last).update.text))
       ELSE /\ Session(42).state = NAME
            /\ Get(last).reply.kind = "invalid_name"
            /\ Get(last).reply.reason # ""

-----------------------------------------------------------------------------
(* Properties of the inbound loop, checked under SpecPoll *)

\* C2: the persisted Cursor never decreases, whatever polling iterations,
\* failed reads and writes of the setting and restarts occur.
C2_CursorMonotone == [][Cursor' >= Cursor]_vars

C2_Witness == disruptions > 0 /\ setting # None /\ Cursor > GetUpdatesLimit

\* C3: every update below the persisted Cursor has been handed to
\* handle_update, and the Cursor is at most one past the last update that
\* exists.
C3_CursorBehindHandled ==
    /\ Cursor <= Len(tg_updates) + 1
    /\ \A id \in 1..Len(tg_updates) : id < Cursor => handled[id] >= 1

C3_Witness ==
    /\ Cursor = Len(tg_updates) + 1
    /\ Len(tg_updates) > GetUpdatesLimit
    /\ disruptions > 0

\* C4 as stated: no update is handed to handle_update more than once,
\* restarts at any point of the loop included.
C4_HandledOnce == \A id \in 1..MaxUpdates : handled[id] <= 1

\* C4 amended: an update is handed to handle_update again only after a
\* restart or a failed read or write of the Cursor: at most once more per
\* such disruption, and never twice when there is none.
C4_HandledOncePerDisruption ==
    \A id \in 1..MaxUpdates : handled[id] <= 1 + disruptions

C4_Witness == \E id \in 1..MaxUpdates : handled[id] = 2 /\ disruptions = 1

\* the last call of handle_update ended in its except branch
HandlingFailed == last # None /\ Get(last).reply.kind = "error"

\* the step is a turn of the loop over the batch
HandlesOne == bot_pc = "handle" /\ upd_i' = upd_i + 1

\* the step is a save of the Cursor that succeeded
SavesCursor ==
    bot_pc = "save" /\ bot_pc' = "load" /\ disruptions' = disruptions

\* C19: whether or not the handling of an update fails, the loop goes on
\* to the next update of the batch and, after the last one, to the save;
\* a save that succeeds persists the Cursor one past the last update of
\* the batch; and while the Cursor is read and written without failure and
\* the process is not restarted, no update, a failed one included, is
\* handed to handle_update a second time.
C19_CursorPassesFailedEvents ==
    /\ [][HandlesOne =>
              /\ OFFSET' = updates[upd_i] + 1
              /\ IF upd_i < Len(updates)
                 THEN bot_pc' = "handle" /\ updates' = updates
                 ELSE bot_pc' = "save"]_vars
    /\ [][SavesCursor => Cursor' = updates[Len(updates)] + 1]_vars
    /\ [](disruptions = 0 => \A id \in 1..MaxUpdates : handled[id] <= 1)

\* C19 witness: the handling of update 2, the last of its batch, failed;
\* the Cursor was saved past it and the next batch holds update 3 alone
C19_Witness ==
    /\ HandlingFailed
    /\ disruptions = 0 /\ Cursor = 3
    /\ bot_pc = "handle" /\ updates = <<3>> /\ upd_i = 1
    /\ handled[1] = 1 /\ handled[2] = 1 /\ handled[3] = 0

-----------------------------------------------------------------------------
(* Properties of the paginated fetch, checked under SpecFetch *)

\* the records of the pages the fetch has been answered so far, in order
RECURSIVE Concat(_, _)
Concat(pgs, n) ==
    IF n = 0 THEN <<>> ELSE Concat(pgs, n - 1) \o pgs[n].list

Answered(st) ==
    Min(Len(pages), IF st.pc = "done" THEN st.page_index
                    ELSE st.page_index - 1)

Seen(st) == Concat(pages, Answered(st))

KnownRecord(item) ==
    user_id_of(item) # None /\ Get(user_id_of(item)) \in known

\* the length of the longest run of consecutive known records of a list
LongestKnownRun(items) ==
    LET Runs == {<<i, j>> \in (1..Len(items)) \X (1..Len(items)) :
                    i <= j /\ \A k \in i..j : KnownRecord(items[k])} IN
    IF Runs = {} THEN 0
    ELSE LET r == CHOOSE r \in Runs :
                     \A q \in Runs : q[2] - q[1] <= r[2] - r[1] IN
         r[2] - r[1] + 1

\* the fetch stopped for a condition other than a run of known records: an
\* empty page, the sentinel record, or the total the provider reports
OtherStopRule(st) == st.stop \in {"empty", "target", "total"}

\* C9: the paginated fetch stops after N consecutive already-known records
\* have been seen: once the records seen hold a run of N known ones the
\* fetch has stopped, and a fetch whose longest run is shorter stops only
\* for another stop condition.
C9_StopsAfterNKnown ==
    (fetch # None /\ Get(fetch).pc # "raised" /\ Get(fetch).nominal) =>
        LET st == Get(fetch)
            run == LongestKnownRun(Seen(st)) IN
        /\ run >= consecutive_existing_threshold => st.pc = "done"
        /\ (st.pc = "done" /\ run < consecutive_existing_threshold)
               => OtherStopRule(st)

-----------------------------------------------------------------------------
(* Properties of the ingestion, checked under SpecIngest *)

\* the stored records of an account id
Stored(id) ==
    {i \in 1..Len(invite_users) : invite_users[i].uid = Some(id)}

PayloadFields == {"uid", "id", "balanceVolume", "registerTime",
                  "registerTimeFormatted"}

-----------------------------------------------------------------------------
(* Properties of the two loops on the shared store, checked under Spec *)

C6_CompletedNotifiedOnce ==
    scen # None =>
        /\ sent[42] <= Get(scen).sent + 1
        /\ (cycle > Get(scen).cycle \/ pul_pc = "top") =>
               /\ Session(42).state = COMPLETED
               /\ Session(42).balanceVolume = Some(25)
               /\ sent[42] = Get(scen).sent + 1

\* C6 witness: a later cycle has run its sweep to the end after the cycle
\* that saved the record
C6_Witness ==
    /\ scen # None /\ cycle > Get(scen).cycle /\ pul_pc = "top"
    /\ ingested = None
    /\ Session(42).state = COMPLETED /\ sent[42] = 1

TerminalStates == {COMPLETED, CANCELLED}

\* C10: an inbound event handled for a Session that is COMPLETED or
\* CANCELLED, command or not, leaves the state as it was and is answered
\* with the fixed reply of that state.
C10_TerminalAbsorbsEvents ==
    (last # None /\ Get(last).before \in TerminalStates) =>
        /\ Get(last).after = Get(last).before
        /\ Get(last).reply.kind \in {"already_completed", "was_cancelled"}

\* C10 amended: a message that is not a command and that the handler reads
\* in COMPLETED or CANCELLED writes nothing and is answered with the fixed
\* reply of the state read; a command is served in these states as in any
\* other: begin moves the Session to NAME, cancel to CANCELLED, when the
\* write succeeds, and an unknown command writes nothing.
C10_TerminalAbsorbsMessages ==
    (last # None /\ Get(last).read \in TerminalStates) =>
        LET h == Get(last) IN
        IF ~startswith(h.update.text, SlashChar)
        THEN /\ ~h.wrote
             /\ h.reply.kind = IF h.read = COMPLETED
                               THEN "already_completed" ELSE "was_cancelled"
        ELSE /\ (h.update.text = CmdStart /\ h.nominal) =>
                    h.after = NAME /\ h.reply.kind = "welcome"
             /\ (h.update.text = CmdCancel /\ h.nominal) =>
                    h.after = CANCELLED /\ h.reply.kind = "cancelled"
             /\ h.update.text \notin {CmdStart, CmdCancel} =>
                    ~h.wrote /\ h.reply.kind = "unknown_command"

\* C10 witness: the begin command restarts a COMPLETED Session
C10_Witness ==
    /\ last # None /\ Get(last).read = COMPLETED
    /\ Get(last).update.text = CmdStart
    /\ Session(42).state = NAME /\ sent[42] = 1

\* the inbound event being routed, None when the inbound loop is not
\* between its state read and its routing
Routing == IF current = None THEN None ELSE Some(Get(current).update)

\* a step takes the Session of chat c out of WAITING_PAYMENT
LeavesWaiting(c) ==
    Session(c).state = WAITING_PAYMENT /\ Session(c).state' # WAITING_PAYMENT

\* the step is the promotion write of the sweep, for chat c
IsPromotion(c) ==
    /\ pul_pc = "promote"
    /\ Get(waiting_users[wait_i].chat_id) = c
    /\ Session(c).state' = COMPLETED

\* the step is the routing of the command text for chat c, leaving it in
\* state st
IsCommand(c, text, st) ==
    /\ Routing = Some(Msg(c, text))
    /\ Session(c).state' = st

\* C11: an inbound event handled for a Session in WAITING_PAYMENT, command
\* or not, is answered with the still-waiting reply and leaves the state
\* as it was, and only the promotion write of the sweep takes a Session out
\* of WAITING_PAYMENT.
C11_WaitingLeftOnlyBySweep ==
    /\ [](last # None /\ Get(last).before = WAITING_PAYMENT =>
              /\ Get(last).reply.kind = "still_waiting"
              /\ Get(last).after = WAITING_PAYMENT)
    /\ [][\A c \in Chats : LeavesWaiting(c) => IsPromotion(c)]_vars

\* C11 amended: a message that is not a command and that the handler reads
\* in WAITING_PAYMENT writes nothing and is answered with the still-waiting
\* reply; a Session leaves WAITING_PAYMENT only by the promotion write of
\* the sweep (to COMPLETED), by the begin command (to NAME) or by the cancel
\* command (to CANCELLED).
C11_WaitingLeftBySweepOrCommand ==
    /\ []((/\ last # None /\ Get(last).read = WAITING_PAYMENT
           /\ ~startswith(Get(last).update.text, SlashChar)) =>
              /\ Get(last).reply.kind = "still_waiting"
              /\ ~Get(last).wrote)
    /\ [][\A c \in Chats : LeavesWaiting(c) =>
              \/ IsPromotion(c)
              \/ IsCommand(c, CmdStart, NAME)
              \/ IsCommand(c, CmdCancel, CANCELLED)]_vars

\* C11 witness: after a cycle left Session 42 waiting, a plain text got the
\* still-waiting reply and the Session still waits
C11_Witness ==
    /\ last # None /\ Get(last).read = WAITING_PAYMENT
    /\ Get(last).update.text = T_Ali
    /\ Get(last).reply.kind = "still_waiting"
    /\ Session(42).state = WAITING_PAYMENT
    /\ cycle > 0 /\ pul_pc = "top"

-----------------------------------------------------------------------------
(* Properties of the Session document, checked under SpecSession *)

\* the account id the handler of state UID stores for a text, None when
\* the text is not a valid account id
SubmittedUid(text) ==
    LET v == validate_uid(fa_to_eng_number(strip(text))) IN
    IF v.ok THEN Some(v.value) ELSE None

\* C12: once the uid of a Session is set, no step changes it.
C12_UidImmutable ==
    [][Session(42).uid # None => Session(42).uid' = Session(42).uid]_vars

\* C12 amended: the uid of a Session changes only when a valid account id
\* is handled in state UID, and then to that account id; no other inbound
\* event and no promotion changes it.  A Session that is restarted and
\* reaches UID again gets the account id sent then.
C12_UidWrittenOnlyInUid ==
    [][Session(42).uid' # Session(42).uid =>
           /\ last' # None
           /\ Get(last').read = UID
           /\ ~startswith(Get(last').update.text, SlashChar)
           /\ Session(42).uid' = SubmittedUid(Get(last').update.text)]_vars

\* C12 witness: the Session got its uid, was promoted by the sweep and has
\* received a message since; the uid is the one it got
C12_Witness ==
    /\ Session(42).uid = Some(T_Uid)
    /\ Session(42).state = COMPLETED
    /\ last # None /\ Get(last).reply.kind = "already_completed"

\* the last handling was of the command text, every store call succeeding
Commanded(text) ==
    last # None /\ Get(last).update.text = text /\ Get(last).nominal

\* C13: after a begin command is handled, in whatever state it arrived, the
\* Session is in NAME and its name, phone, capital band and uid are empty.
C13_BeginEmptiesSession ==
    Commanded(CmdStart) =>
        /\ Session(42).state = NAME
        /\ Session(42).name = None /\ Session(42).phone = None
        /\ Session(42).capital = None /\ Session(42).uid = None

NonTerminalStates == States \ TerminalStates

\* C14: a cancel command handled in START, NAME, PHONE, CAPITAL, UID or
\* WAITING_PAYMENT, its write succeeding, leaves the Session CANCELLED, and
\* a Session becomes CANCELLED only by the handling of a cancel command.
C14_CancelRule ==
    /\ []((Commanded(CmdCancel) /\ Get(last).before \in NonTerminalStates)
              => /\ Session(42).state = CANCELLED
                 /\ Get(last).reply.kind = "cancelled")
    /\ [][(Session(42).state # CANCELLED /\ Session(42).state' = CANCELLED)
              => last' # None /\ Get(last').update.text = CmdCancel]_vars

\* C14 witness: the cancel command arrived for a waiting Session
C14_Witness ==
    /\ Commanded(CmdCancel)
    /\ Get(last).before = WAITING_PAYMENT
    /\ Session(42).state = CANCELLED
    /\ Session(42).uid = Some(T_Uid)

-----------------------------------------------------------------------------
(* Properties of the stored Sessions under both loops, checked under Spec *)

\* C15: whatever steps of the inbound handling and of the reconciliation
\* loop have been taken, every stored Session carries a chat identity and
\* one of the eight states, and no two stored Sessions have the same chat
\* identity.
C15_SessionsWellFormed ==
    /\ \A i \in 1..Len(users) :
        users[i].state \in States /\ users[i].chat_id # None
    /\ \A i, j \in 1..Len(users) :
        users[i].chat_id = users[j].chat_id => i = j

\* C15 witness: the promotion write of the sweep landed after the cancel
\* command that was handled while the sweep held the Session as waiting
C15_Witness ==
    /\ last # None /\ Get(last).update.text = CmdCancel
    /\ Get(last).after = CANCELLED
    /\ Session(42).state = COMPLETED
    /\ Session(43).state = WAITING_PAYMENT
    /\ Len(users) = Cardinality(Chats)

\* the sweep in progress enumerated the Session of chat c
Enumerated(c) ==
    \E i \in 1..Len(waiting_users) : waiting_users[i].chat_id = Some(c)

\* the step is one of the reconciliation loop: every step of the inbound
\* handling sets or clears the update in flight
PullerStep == current' = current

\* C16: a step of the reconciliation loop, whatever balance the account now
\* has, leaves a Session that is COMPLETED and that the sweep in progress
\* did not enumerate as waiting as it is (state, stamped balance,
\* confirmation time), sends no notification for it and does not enumerate
\* it.
C16_CompletedUntouchedBySweep ==
    [][\A c \in Chats :
          (PullerStep /\ Session(c).state = COMPLETED /\ ~Enumerated(c)) =>
              /\ Session(c)' = Session(c)
              /\ sent'[c] = sent[c]
              /\ ~Enumerated(c)']_vars

\* C16 witness: Session 42 was promoted at the threshold in the first cycle;
\* the second cycle stored the account with balance 25 and ran its sweep
C16_Witness ==
    /\ pul_pc = "top" /\ cycle > 1
    /\ Session(42).state = COMPLETED
    /\ Session(42).balanceVolume = Some(ThresholdBalance)
    /\ Session(42).payment_confirmed_at = Some(1)
    /\ find_one(invite_users, "uid", T_Uid) # None
    /\ Get(find_one(invite_users, "uid", T_Uid)).balanceVolume = Some(25)
    /\ sent[42] = 1

-----------------------------------------------------------------------------
(* Properties of one sweep, checked under SpecSweep *)

\* the stored account of a uid, None when there is none
Account(uid) == find_one(invite_users, "uid", uid)

\* the stored account of a uid holds a balance at or above the threshold
Funded(uid) ==
    Account(uid) # None /\ balance_of(Get(Account(uid))) >= ThresholdBalance

\* the sweep has run to its end over the Sessions it enumerated
SweepDone == pul_pc = "top" /\ sweep # None

\* the last decision of the sweep met a failure of its own: the lookup of a
\* stored account came back empty, or the promotion write did not succeed
OwnFailure(w) ==
    \/ w.decision = "not_found" /\ Account(Get(w.uid)) # None
    \/ w.stage = "written" /\ ~w.ok

\* C17: when the sweep over the waiting Sessions 42 and 43 has run to its
\* end, Session 43 was evaluated whatever failed for Session 42 (lookup,
\* promotion write or notification): it is COMPLETED with the balance of
\* its account when the account is stored at or above the threshold, unless
\* its own lookup or write failed, and it still waits otherwise.
C17_OthersStillEvaluated ==
    SweepDone =>
        LET w == Get(sweep) IN
        /\ w.chat = 43
        /\ (Funded(T_Uid2) /\ ~OwnFailure(w)) =>
               /\ Session(43).state = COMPLETED
               /\ Session(43).balanceVolume =
                      Some(balance_of(Get(Account(T_Uid2))))
        /\ ~Funded(T_Uid2) => Session(43).state = WAITING_PAYMENT

\* C17 witness: the account of Session 42 is stored at the threshold and
\* the Session still waits, its lookup or its write having failed; Session
\* 43 was promoted after it
C17_Witness ==
    /\ SweepDone
    /\ Funded(T_Uid) /\ Session(42).state = WAITING_PAYMENT
    /\ Session(43).state = COMPLETED /\ sent[43] = 1

\* the step is a notification that was not sent
NotifyFails == pul_pc = "notify" /\ pul_pc' # "notify" /\ sent' = sent

\* C18: a notification that fails leaves the Session it was for COMPLETED
\* with the stamped balance, and the sweep goes on: to the next waiting
\* Session, or back to main after the last one.  When the sweep over
\* Sessions 42 and 43 has ended with the notification of 42 failed, 42 is
\* COMPLETED with the balance of its account and 43 was evaluated: promoted
\* when its account is at or above the threshold and its own calls worked.
C18_NotifyFailureKeepsPromotion ==
    /\ [][NotifyFails =>
              \E chat \in Chats :
              /\ chat = Get(waiting_users[wait_i].chat_id)
              /\ Session(chat)' = Session(chat)
              /\ Session(chat).state = COMPLETED
              /\ Session(chat).balanceVolume = Some(balance_volume)
              /\ IF wait_i < Len(waiting_users)
                 THEN /\ pul_pc' = "lookup" /\ wait_i' = wait_i + 1
                      /\ waiting_users' = waiting_users
                 ELSE pul_pc' = "top"]_vars
    /\ []((SweepDone /\ Session(42).state = COMPLETED /\ sent[42] = 0) =>
              /\ Session(42).balanceVolume =
                     Some(balance_of(Get(Account(T_Uid))))
              /\ Get(sweep).chat = 43
              /\ (Funded(T_Uid2) /\ ~OwnFailure(Get(sweep))) =>
                     Session(43).state = COMPLETED)

\* C18 witness: the notification of Session 42 failed, Session 43 was
\* promoted and notified after it
C18_Witness ==
    /\ SweepDone
    /\ Session(42).state = COMPLETED /\ sent[42] = 0
    /\ Session(42).balanceVolume = Some(ThresholdBalance)
    /\ Session(43).state = COMPLETED /\ sent[43] = 1

-----------------------------------------------------------------------------
(* Properties of the reconciliation loop of main, checked under Spec *)

\* C20: a page fetch or a batch upsert that fails never ends the
\* reconciliation loop: main is never left by the failure, so that the loop
\* can start its next cycle.
C20_FailureNeverEndsLoop == pul_pc # "crashed"

-----------------------------------------------------------------------------
(* Properties of a failing fetch, checked under SpecFetch *)

\* C21: once a page request or its decoding has failed the fetch has raised:
\* it hands no record to its caller, the records of the pages answered
\* before included, and it requests no further page.
C21_FailedFetchReturnsNothing ==
    /\ []((fetch # None /\ Get(fetch).pc = "raised") =>
              Get(fetch).all_data = <<>>)
    /\ [][(fetch # None /\ Get(fetch).pc = "raised") => fetch' = fetch]_vars

\* C21 witness: the request for the second page failed after the first page
\* had been answered with records
C21_Witness ==
    /\ fetch # None /\ Get(fetch).pc = "raised"
    /\ Get(fetch).page_index = 2
    /\ Len(pages) >= 2 /\ pages[1].list # <<>>
    /\ Get(fetch).variant = "fetch_all_users_until_no_new"

-----------------------------------------------------------------------------
(* Properties of the Session's lifecycle, checked under SpecSession *)

\* a Session document is stored for chat c
Exists(c) == find_one(users, "chat_id", c) # None

\* C22: once an inbound event of a chat has been handled, command or
\* ordinary message, a Session document exists for the chat, and a Session
\* document once stored is never deleted.
C22_SessionAfterFirstEvent ==
    /\ []((last # None /\ Get(last).nominal) => Exists(42))
    /\ [][Exists(42) => Exists(42)']_vars

\* C22 amended: the Session document of a chat is created by the first
\* begin or cancel command handled for it whose write succeeds; an ordinary
\* message or an unrecognized command from a chat without a document is
\* answered as in START and creates none; a document once stored is never
\* deleted.
C22_SessionAfterFirstCommand ==
    /\ []((Commanded(CmdStart) \/ Commanded(CmdCancel)) => Exists(42))
    /\ []((last # None /\ ~Exists(42)) =>
              \/ Get(last).reply.kind \in {"send_start", "unknown_command"}
              \/ /\ Get(last).reply.kind = "error"
                 /\ Get(last).update.text \in {CmdStart, CmdCancel})
    /\ [][(~Exists(42) /\ Exists(42)') =>
              /\ last' # None
              /\ Get(last').update.text \in {CmdStart, CmdCancel}]_vars
    /\ [][Exists(42) => Exists(42)']_vars

\* C22 witness: the first event of the chat, an ordinary message, has been
\* handled and no Session document is stored
C22_Witness ==
    /\ last # None /\ Get(last).nominal
    /\ Get(last).update.text = T_Ali
    /\ Get(last).reply.kind = "send_start"
    /\ ~Exists(42)

-----------------------------------------------------------------------------
(* Properties of the validators, checked under SpecInput *)

\* the one input has been handled in state st, it was no command and every
\* call of the handling succeeded
Entered(st) ==
    /\ last # None /\ Get(last).nominal
    /\ Get(last).before = st
    /\ ~startswith(Get(last).update.text, SlashChar)

\* the phone of an update: the contact's number, else the text
PhoneOf(update) ==
    IF update.contact # None THEN Get(update.contact) ELSE update.text

\* a phone with every character removed that is neither a digit nor a
\* leading +
CleanedPhone(phone) ==
    (IF phone # <<>> /\ phone[1] = PlusSign THEN <<PlusSign>> ELSE <<>>)
    \o SelectSeq(phone, IsDigit)

\* the cleaned phone consists of 10 to 15 digits
TenToFifteenDigits(phone) ==
    Len(SelectSeq(phone, IsDigit)) \in PhoneMinDigits..PhoneMaxDigits

\* C23: in PHONE an input is accepted exactly when, cleaned of every
\* non-digit except a leading +, it has 10 to 15 digits; accepted, the
\* Session moves to CAPITAL with the cleaned phone stored; otherwise the
\* Session is unchanged and the user is prompted again.
C23_PhoneRule ==
    Entered(PHONE) =>
        LET phone == strip(PhoneOf(Get(last).update)) IN
        IF TenToFifteenDigits(phone)
        THEN /\ users = <<[StagedSession(PHONE) EXCEPT
                              !.state = CAPITAL,
                              !.phone = Some(CleanedPhone(phone))]>>
             /\ Get(last).reply.kind = "ask_capital"
        ELSE /\ users = <<StagedSession(PHONE)>>
             /\ Get(last).reply.kind = "invalid_phone"

\* a text of 6 to 20 characters, each an ASCII letter or an ASCII digit
SixToTwentyAlnum(t) ==
    /\ Len(t) \in UidMinLen..UidMaxLen
    /\ \A i \in 1..Len(t) : IsAsciiLetter(t[i]) \/ IsAsciiDigit(t[i])

\* C24: in UID an input, its Persian digits made ASCII and its whitespace
\* trimmed, is accepted exactly when it consists of 6 to 20 alphanumeric
\* characters; accepted, the Session moves to WAITING_PAYMENT and the stored
\* uid is that normalized text; otherwise the Session is unchanged and the
\* user is prompted again.
C24_UidRule ==
    Entered(UID) =>
        LET uid == strip(fa_to_eng_number(Get(last).update.text)) IN
        IF SixToTwentyAlnum(uid)
        THEN /\ users = <<[StagedSession(UID) EXCEPT
                              !.state = WAITING_PAYMENT,
                              !.uid = Some(uid)]>>
             /\ Get(last).reply.kind = "summary"
        ELSE /\ users = <<StagedSession(UID)>>
             /\ Get(last).reply.kind = "invalid_uid"

\* C25: in CAPITAL the Session moves to UID and stores the band exactly when
\* the text is one of the five labels; for any other input the Session
\* stays as it was, nothing is stored, and the keyboard of the five labels
\* is sent again.
C25_CapitalRule ==
    /\ Entered(CAPITAL) =>
           IF Get(last).update.text \in valid_options
           THEN /\ users = <<[StagedSession(CAPITAL) EXCEPT
                                 !.state = UID,
                                 !.capital = Some(Get(last).update.text)]>>
                /\ Get(last).reply.kind = "ask_uid"
           ELSE /\ users = <<StagedSession(CAPITAL)>>
                /\ Get(last).reply.kind = "choose_capital"
                /\ reply_markup(Get(last).reply.kind) = valid_options
    /\ (/\ last # None /\ Get(last).before = CAPITAL
        /\ ~startswith(Get(last).update.text, SlashChar)
        /\ Get(last).update.text \notin valid_options)
           => users = <<StagedSession(CAPITAL)>>

\* C25 witness: the second label was handled in CAPITAL, the Session is in
\* UID and holds the label
C25_Witness ==
    /\ Entered(CAPITAL)
    /\ Get(last).update.text = T_Label2
    /\ Session(42).state = UID /\ Session(42).capital = Some(T_Label2)

\* the reason for which the handler of state st rejects an update, "" when
\* it does not
Rejection(st, update) ==
    IF st = NAME THEN validate_name(update.text).reason
    ELSE IF st = PHONE THEN validate_phone(PhoneOf(update)).reason
    ELSE IF st = CAPITAL
         THEN IF update.text \in valid_options THEN "" ELSE "not_an_option"
    ELSE validate_uid(fa_to_eng_number(strip(update.text))).reason

\* the replies that ask for the same field again
RePrompt(st) ==
    IF st = NAME THEN "invalid_name"
    ELSE IF st = PHONE THEN "invalid_phone"
    ELSE IF st = CAPITAL THEN "choose_capital"
    ELSE "invalid_uid"

\* C26: in NAME, PHONE, CAPITAL and UID an input that the validation of the
\* state rejects leaves the whole Session document as it was, state and
\* every collected field, and is answered by a new prompt for the same field
\* that carries the reason of the rejection.
C26_RejectionFrame ==
    \A st \in InputStates :
        (/\ last # None /\ Get(last).read = st
         /\ ~startswith(Get(last).update.text, SlashChar)
         /\ Rejection(st, Get(last).update) # "")
        => /\ users = <<StagedSession(st)>>
           /\ Get(last).reply.kind = RePrompt(st)
           /\ Get(last).reply.reason = Rejection(st, Get(last).update)

\* C26 witness: a phone of nine digits was handled in PHONE and rejected
C26_Witness ==
    /\ last # None /\ Get(last).read = PHONE
    /\ Get(last).update.text = Nines(PhoneMinDigits - 1)
    /\ Get(last).reply = Reply("invalid_phone", "phone_shape")
    /\ users = <<StagedSession(PHONE)>>

-----------------------------------------------------------------------------
(* Properties of the command dispatch, checked under SpecSession *)

\* the step handles a message whose text starts with the command prefix
HandlesCommand ==
    last' # None /\ startswith(Get(last').update.text, SlashChar)

\* what a command does: text and kind are the command and its reply, s0 and
\* s1 the Session before and after, same tells that no document changed
CommandEffect(text, kind, s0, s1, same) ==
    /\ s1.name = s0.name /\ s1.phone = s0.phone
    /\ s1.capital = s0.capital /\ s1.uid = s0.uid
    /\ text = CmdStart =>
           \/ kind = "welcome"
              /\ s1 = [s0 EXCEPT !.chat_id = Some(42), !.state = NAME]
           \/ kind = "error" /\ same
    /\ text = CmdCancel =>
           \/ kind = "cancelled"
              /\ s1 = [s0 EXCEPT !.chat_id = Some(42), !.state = CANCELLED]
           \/ kind = "error" /\ same
    /\ text \notin {CmdStart, CmdCancel} => kind = "unknown_command" /\ same

\* C27: a message whose text starts with / is handled as a command in every
\* state, before the state is looked at: it is never taken as a name, a
\* phone, a band or an account id, /start and /cancel do the same in every
\* state, and an unrecognized command leaves the Session unchanged.
C27_CommandsFirst ==
    [][HandlesCommand =>
          /\ CommandEffect(Get(last').update.text, Get(last').reply.kind,
                           Session(42), Session(42)', users' = users)
          /\ Get(last').nominal => Get(last').reply.kind # "error"]_vars

\* C27 witness: /start has been handled for a Session past NAME, which is in
\* NAME again
C27_Witness ==
    /\ Commanded(CmdStart)
    /\ Get(last).before \in {PHONE, CAPITAL, UID, WAITING_PAYMENT, COMPLETED,
                              CANCELLED}
    /\ Session(42).state = NAME

-----------------------------------------------------------------------------
(* Properties of the unknown stored state, checked under SpecInput *)

\* C28: when a message that is no command is handled for a Session whose
\* stored state is none of the enumerated values, the state of the Session
\* is set to START and its other fields are left as they were.
C28_UnknownStateReset ==
    (/\ last # None /\ Get(last).read = LegacyState
     /\ ~startswith(Get(last).update.text, SlashChar))
    => /\ Get(last).nominal =>
              /\ users = <<[StagedSession(LegacyState) EXCEPT
                                !.state = START]>>
              /\ Get(last).reply.kind = "state_error"
       /\ Get(last).reply.kind \in {"state_error", "error"}
       /\ Get(last).reply.kind = "error" =>
              users = <<StagedSession(LegacyState)>>

\* C28 witness: a text was handled for the Session with the legacy state,
\* which is in START with its uid kept
C28_Witness ==
    /\ last # None /\ Get(last).read = LegacyState
    /\ Get(last).update.text = T_Ali
    /\ Session(42).state = START /\ Session(42).uid = Some(T_Uid)
    /\ Session(42).name = Some(T_Ali)

-----------------------------------------------------------------------------
(* Properties of the Sessions without a stored account, under SpecSweep *)

\* the Session of chat c has no uid, or no account is stored for its uid
NoAccount(c) ==
    \/ Falsy(Session(c).uid)
    \/ Account(Get(Session(c).uid)) = None

\* C29: in a sweep, a waiting Session whose uid has no stored account, or
\* that has no uid, stays in WAITING_PAYMENT unchanged and is sent no
\* notification; the sweep does not fail on it: it goes on to the next
\* waiting Session, or returns to main after the last one.
C29_NoAccountKeepsWaiting ==
    /\ [](\A c \in {42, 43} :
              NoAccount(c) =>
                  /\ Session(c) \in SweepSessions
                                     \cup {WaitingSession(43, T_Uid2)}
                  /\ sent[c] = 0)
    /\ [][\A c \in {42, 43} :
              (/\ pul_pc = "lookup"
               /\ waiting_users[wait_i].chat_id = Some(c)
               /\ NoAccount(c))
              => /\ users' = users /\ sent' = sent
                 /\ pul_pc' = AfterUser /\ wait_i' = NextUser]_vars
    /\ [](SweepDone => Get(sweep).chat = 43)
    /\ [](pul_pc # "crashed")

\* C29 witness: the sweep has ended; Session 42 has no uid, no account is
\* stored for the uid of Session 43, both still wait and neither was
\* notified
C29_Witness ==
    /\ SweepDone
    /\ Session(42).uid = None /\ Account(T_Uid2) = None
    /\ Session(42).state = WAITING_PAYMENT
    /\ Session(43).state = WAITING_PAYMENT
    /\ sent[42] = 0 /\ sent[43] = 0

-----------------------------------------------------------------------------
(* Properties of fetch_all_users_until_no_new, checked under SpecFetch *)

\* the fetch is one of fetch_all_users_until_no_new that has not raised
UntilNoNew(f) ==
    /\ f # None
    /\ Get(f).variant = "fetch_all_users_until_no_new"
    /\ Get(f).pc # "raised"

\* page p of the provider ends the fetch: it is empty or missing, or one of
\* its records bears the sentinel identifier
EndsFetch(p) ==
    \/ page_list(pages, p) = <<>>
    \/ \E i \in 1..Len(page_list(pages, p)) :
           user_id_of(page_list(pages, p)[i]) = Some(target_uid)

\* the records of a list, each with the number of times it occurs
BagOf(seq) ==
    [x \in {seq[i] : i \in 1..Len(seq)} |->
        Cardinality({i \in 1..Len(seq) : seq[i] = x})]

\* C30: fetch_all_users_until_no_new requests the pages 1, 2, 3, ... in
\* order, none skipped or repeated, stops after the first page that is
\* empty or missing or holds the sentinel record, and returns exactly the
\* records of the non-empty pages it fetched, the sentinel page included,
\* known and new ones alike, each once.
C30_PagesInOrderAllRecords ==
    /\ [](UntilNoNew(fetch) =>
              /\ \A p \in 1..(Get(fetch).page_index - 1) : ~EndsFetch(p)
              /\ Get(fetch).pc = "done" => EndsFetch(Get(fetch).page_index)
              /\ BagOf(Get(fetch).all_data) = BagOf(Seen(Get(fetch))))
    /\ [][(UntilNoNew(fetch) /\ UntilNoNew(fetch')) =>
              /\ Get(fetch).pc = "run"
              /\ Get(fetch').page_index =
                     IF EndsFetch(Get(fetch).page_index)
                     THEN Get(fetch).page_index
                     ELSE Get(fetch).page_index + 1
              /\ Get(fetch').pc =
                     IF EndsFetch(Get(fetch).page_index) THEN "done"
                     ELSE "run"]_vars

\* C30 witness: the fetch stopped on the sentinel record of page 2 and
\* returns it after the known and the new records of page 1
C30_Witness ==
    /\ UntilNoNew(fetch)
    /\ Get(fetch).pc = "done" /\ Get(fetch).stop = "target"
    /\ Get(fetch).page_index = 2
    /\ \E i, j \in 1..Len(Get(fetch).all_data) :
           /\ KnownRecord(Get(fetch).all_data[i])
           /\ ~KnownRecord(Get(fetch).all_data[j])
           /\ user_id_of(Get(fetch).all_data[j]) # Some(target_uid)
    /\ user_id_of(Get(fetch).all_data[Len(Get(fetch).all_data)])
           = Some(target_uid)

-----------------------------------------------------------------------------
(* Termination of the paginated fetch, checked under SpecFetchLive *)

\* C31: a paginated fetch terminates: the provider holding finitely many
\* pages, the loop of either variant stops (returns or raises) after at
\* most one request per page and one beyond the last, whether or not the
\* sentinel record is ever met.
C31_FetchTerminates ==
    /\ <>(fetch # None /\ Get(fetch).pc \in {"done", "raised"})
    /\ [](fetch # None => Get(fetch).page_index \in 1..(Len(pages) + 1))
    /\ [][(fetch # None /\ fetch' # fetch /\ Get(fetch').pc = "run") =>
              Get(fetch').page_index = Get(fetch).page_index + 1]_vars

\* C31 witness: fetch_all_users_until_no_new has stopped on the missing
\* page beyond the last of two pages, no page holding the sentinel record
C31_Witness ==
    /\ UntilNoNew(fetch) /\ Len(pages) = 2
    /\ Get(fetch).pc = "done" /\ Get(fetch).stop = "empty"
    /\ Get(fetch).page_index = 3
    /\ \A i \in 1..Len(Get(fetch).all_data) :
           user_id_of(Get(fetch).all_data[i]) # Some(target_uid)

-----------------------------------------------------------------------------
(* Properties of the reconciliation cycle, checked under Spec *)

\* the steps of main in the order the cycle takes them: the fetch leads to
\* the save, the save to the sweep's enumeration, the sweep through its
\* waiting users back to the top of the loop, where main sleeps; a call
\* that raises ends main
CycleOrder ==
    {<<"top", "save">>, <<"top", "crashed">>,
     <<"save", "enumerate">>, <<"save", "crashed">>,
     <<"enumerate", "lookup">>, <<"enumerate", "top">>,
     <<"lookup", "promote">>, <<"lookup", "top">>,
     <<"promote", "notify">>, <<"promote", "lookup">>, <<"promote", "top">>,
     <<"notify", "lookup">>, <<"notify", "top">>}

InSweep == pul_pc \in {"enumerate", "lookup", "promote", "notify"}

\* C32: in every cycle the steps run in the order fetch, batch upsert,
\* sweep, sleep; during the sweep of a cycle the store holds every account
\* record ingested in that cycle, with the values of the batch, and the
\* sweep runs as well when the fetch returned no records.
C32_FetchSaveSweep ==
    /\ [][pul_pc' # pul_pc => <<pul_pc, pul_pc'>> \in CycleOrder]_vars
    /\ [][cycle' # cycle => (pul_pc = "top" /\ cycle' = cycle + 1)]_vars
    /\ []((InSweep /\ ingested # None) =>
              /\ Get(ingested).at = cycle
              /\ \A id \in BatchIds(Get(ingested).batch) :
                     /\ Cardinality(Stored(id)) = 1
                     /\ \A i \in Stored(id) :
                            /\ invite_users[i].updated_at = Some(cycle)
                            /\ invite_users[i].balanceVolume \in
                                   {r.balanceVolume :
                                       r \in Payloads(Get(ingested).batch,
                                                      id)})
    /\ []((InSweep /\ ingested = None) => new_users = <<>>)
    /\ [][(pul_pc = "save" /\ pul_pc' # "save" /\ new_users = <<>>) =>
              (pul_pc' = "enumerate" /\ invite_users' = invite_users)]_vars

\* C32 witness: in the second cycle the sweep has decided to promote
\* Session 42 on the balance 25 that the cycle ingested
C32_Witness ==
    /\ pul_pc = "promote" /\ cycle = 2
    /\ ingested # None /\ Get(ingested).at = 2
    /\ IngestsScenario(Get(ingested).batch)
    /\ sweep # None /\ Get(sweep).chat = 42 /\ Get(sweep).balance = 25

-----------------------------------------------------------------------------
(* Properties of a failed retrieval, checked under SpecRetry *)

\* C33: when the retrieval of a batch fails, the persisted Cursor and every
\* Session are unchanged and the loop calls again after its pause: the loop
\* never ends for it, and every queued event is handled once a later
\* retrieval succeeds.
C33_RetrievalRetried ==
    /\ [][(bot_pc = "get" /\ bot_pc' \notin {"get", "handle"}) =>
              /\ bot_pc' = "load"
              /\ setting' = setting /\ users' = users
              /\ handled' = handled /\ OFFSET' = OFFSET]_vars
    /\ [](bot_pc \in {"load", "get", "handle", "save"})
    /\ \A i \in 1..MaxUpdates :
           (scen # None /\ Len(tg_updates) >= i) ~> (handled[i] >= 1)

\* C33 witness: a retrieval failed while updates were queued and none was
\* handled; every update is handled now and the Cursor is past the last
C33_Witness ==
    /\ scen # None /\ Get(scen).queued = MaxUpdates /\ Get(scen).offset = 0
    /\ \A i \in 1..MaxUpdates : handled[i] = 1
    /\ Cursor = MaxUpdates + 1

-----------------------------------------------------------------------------
(* Liveness of the promotion, checked under SpecLive *)

\* the batch holds the account of uid with a balance at or above the
\* threshold, and no other record of it
ReturnsFunded(batch, uid) ==
    /\ Payloads(batch, uid) # {}
    /\ \A r \in Payloads(batch, uid) :
           GetOr(r.balanceVolume, 0) >= ThresholdBalance

Waits(c) == Session(c).state = WAITING_PAYMENT

\* C34: the loop kept turning, no call failing and no inbound event
\* arriving, a waiting Session becomes COMPLETED once the fetch of a cycle
\* has returned its account at or above the threshold, and also when the
\* account was stored at or above the threshold by an earlier cycle that
\* did not promote the Session and the sweep of a cycle begins.
C34_FundedEventuallyCompleted ==
    /\ (pul_pc = "save" /\ Waits(42) /\ ReturnsFunded(new_users, T_Uid))
           ~> (Session(42).state = COMPLETED)
    /\ (pul_pc = "enumerate" /\ Waits(42) /\ Funded(T_Uid))
           ~> (Session(42).state = COMPLETED)

\* C34 witness: the account of Session 42 was stored at the threshold
\* before the first cycle, whose fetch returned nothing, and the sweep of
\* that cycle has promoted the Session
C34_Witness ==
    /\ cycle = 1 /\ ingested = None
    /\ Funded(T_Uid)
    /\ Session(42).state = COMPLETED
    /\ Session(42).balanceVolume = Some(ThresholdBalance)

-----------------------------------------------------------------------------
(* Properties of the two loops on the shared store, checked under Spec *)

\* the last step of the sweep was a promotion write that succeeded
Promoted ==
    sweep # None /\ Get(sweep).stage = "written" /\ Get(sweep).ok

\* C35: under every interleaving of the two loops the sweep writes
\* COMPLETED to a Session only if the Session is in WAITING_PAYMENT at the
\* moment of the write: a /start or /cancel handled between the sweep's
\* enumeration and its write is never overwritten by COMPLETED.
C35_PromotionOnlyFromWaiting ==
    Promoted => Get(sweep).before.state = WAITING_PAYMENT

\* the step is one of the reconciliation loop: each of them moves the loop
ReconciliationStep == pullerVars' # pullerVars

\* document `after` is document `before` but for the fields of a promotion
PromotionOnly(before, after) ==
    [after EXCEPT !.state = before.state,
                  !.balanceVolume = before.balanceVolume,
                  !.payment_confirmed_at = before.payment_confirmed_at]
        = before

\* C39: the reconciliation loop never changes a Session's collected fields
\* (name, phone, capital band, account id): a promotion writes only the
\* state, the stamped balance and the confirmation time, and creates or
\* removes no Session; the inbound loop never creates or modifies an
\* ExternalAccount record.
C39_LoopsKeepToTheirFields ==
    [][/\ ReconciliationStep =>
            /\ Len(users') = Len(users)
            /\ \A i \in 1..Len(users) : PromotionOnly(users[i], users'[i])
       /\ ~ReconciliationStep => invite_users' = invite_users]_vars

\* a promotion has been written over a Session that holds its collected
\* fields, an account has been ingested and the chat has been handled
C39_Witness ==
    /\ Promoted
    /\ Get(sweep).after.state = COMPLETED
    /\ Get(sweep).after.name # None /\ Get(sweep).after.phone # None
    /\ Get(sweep).after.capital # None /\ Get(sweep).after.uid # None
    /\ Len(invite_users) > 1
    /\ last # None

-----------------------------------------------------------------------------
(* Properties of one sweep against the conversation of a chat, checked     *)
(* under SpecRace                                                           *)

\* C36: under every interleaving of the two loops, whenever a Session is
\* written COMPLETED, the stored account of the uid the Session holds at
\* the moment of the write has a balance at or above the threshold, and the
\* balance stamped on the Session is that account's balance, not the
\* balance of the account of a uid the Session held when it was enumerated.
C36_CompletedMatchesCurrentAccount ==
    Promoted =>
        LET held == Get(sweep).before.uid IN
        /\ held # None
        /\ Funded(Get(held))
        /\ Get(sweep).after.balanceVolume
               = Some(balance_of(Get(Account(Get(held)))))

\* C38: over any sequence of inbound events and reconciliation cycles, the
\* number of completion notifications sent to a chat never exceeds the
\* number of times that chat's Session entered WAITING_PAYMENT.
C38_NotificationsWithinEntries ==
    \A c \in DOMAIN sent : sent[c] <= entered[c]

\* the chat is notified, restarts, enters WAITING_PAYMENT again and is
\* notified again
C38_Witness ==
    /\ sent[42] > 1 /\ sent[42] = entered[42]
    /\ Session(42).state = COMPLETED

====
